---- MODULE Spec2Model ----
(***************************************************************************)
(* A model of mocha's reporter core (lib/reporters/base.js and the         *)
(* reporters built on it).  Three specifications share one module:         *)
(*   SpecStack : getFullErrorStack, as a call-by-call machine;             *)
(*   SpecDiff  : the Base constructor's maxDiffSize option + generateDiff; *)
(*   Spec      : the runner's lifecycle events handled by Base and by the  *)
(*               reporter on top of it, and the run-end rendering.         *)
(* Strings are sequences of one-character strings, so that indexOf, slice  *)
(* and concatenation are computed and not assumed.                         *)
(***************************************************************************)
EXTENDS Integers, Sequences, FiniteSets, TLC

VARIABLES
    \* ---- getFullErrorStack (SpecStack)
    heap,       \* the error objects of one cause chain: id -> fields
    pc,         \* "call" | "ret" | "done" | "idle"
    arg,        \* the error the pending call is made on
    seen,       \* the Set shared by the recursive calls ({} also stands for undefined)
    frames,     \* suspended callers, innermost last
    ret,        \* the value the latest finished call returned
    calls,      \* invocations of getFullErrorStack so far
    lastCall,   \* what the latest finished call saw and returned
    \* ---- generateDiff (SpecDiff)
    maxDiffSize,  \* module-level `let maxDiffSize`
    inlineDiffs,  \* module-level `let inlineDiffs`
    dcall,        \* the latest generateDiff call's arguments
    dres,         \* and what it returned
    \* ---- lifecycle (Spec)
    reporter,   \* which reporter was constructed on the runner
    hideDiff,   \* Base.hideDiff
    errs,       \* the error objects the runner reports: id -> mutable fields
    testErr,    \* test.err, per test (0 while unset)
    testState,  \* test.state / pending, as the runner sets it before emitting
    duration,   \* test.duration
    speed,      \* test.speed ("unset" until a pass event)
    failures,   \* Base's this.failures
    xtests,     \* XUnit's `tests`
    failLog,    \* history: the (test, err) of every test-fail event, in arrival order
    nEvents,    \* how many test events were delivered
    stats,      \* runner.stats, kept by the runner's stats collector
    ended,      \* run-end was delivered
    out,        \* what run-end rendered
    prevOut,    \* what the rendering before the latest one rendered
    \* ---- the dispatch of one event to its listeners (SpecEmit)
    listeners,  \* the runner's listeners of EVENT_TEST_PASS, in registration order
    emitting,   \* the listeners the running emit has still to call
    cur,        \* the test of the running emit (0 when none)
    writes,     \* assignments to test.speed during the running emit
    reads,      \* every read of a test's speed: who read, which test, what it saw
    collected,  \* the JSON reporter's `tests` and `passes` arrays
    \* ---- XUnit's file output (SpecXFile)
    xenv,       \* the options and the platform: output given, browser, process.stdout
    xunit,      \* "new" | "ok" | "threw" | "unsupported" | "reported"
    fileStream, \* this.fileStream: "none" | "open" | "ending" | "finished" | "errored"
    sinks,      \* where each written line went
    endCb,      \* the callback given to fileStream.end: "none" | "pending" | "called"
    doneWith,   \* the failures count done() was called with (-1 before the call)
    fnCalls,    \* every invocation of done's fn
    uncaught,   \* an 'error' event was emitted with no listener
    \* ---- the JSON reporter's run-end (SpecJSON)
    objs,         \* the objects reachable from the failed test's err: id -> fields
    output,       \* `let output`: TRUE when reporterOption.output is given
    jsonFailures, \* the JSON reporter's `failures` array
    report,       \* what the run-end handler did
    \* ---- the Landing reporter (SpecLanding)
    tty,          \* isatty, and the window's width
    phase,        \* "constructed" | "begun" | "ended": the run's events so far
    cursorHidden, \* the terminal's cursor is hidden
    strip,        \* Landing's n, total, crashed, and the col and plane last drawn
    sigint,       \* the process.once('SIGINT') listener: "armed" | "fired"
    tick,         \* a process.nextTick callback is pending
    proc,         \* "running" | "exited" | "killed"
    termLog,      \* cursor.hide, cursor.show, epilogue, kill and exit, in order
    \* ---- the terminal's capabilities (SpecTerm) and Dot's output (SpecDot)
    env,          \* the platform the module was loaded on
    colorCall,    \* the latest call of color, and what it returned
    layout,       \* the reporter constructed, and the width it lays out against
    dot,          \* Dot's width and n, and what it wrote
    \* ---- the HTML reporter's containers (SpecHTML)
    rootSuite,    \* the root suite, as the runner sees it: "idle" | "running" | "done"
    openSuites,   \* the runner's open suites below the root, outermost first
    containers,   \* HTML's `stack`, innermost first (0 is #mocha-report)
    dom           \* the elements appended so far, and the container of each

stackVars == <<heap, pc, arg, seen, frames, ret, calls, lastCall>>
diffVars  == <<maxDiffSize, inlineDiffs, dcall, dres>>
runVars   == <<reporter, hideDiff, errs, testErr, testState, duration, speed,
               failures, xtests, failLog, nEvents, stats, ended, out, prevOut>>
emitVars  == <<listeners, emitting, cur, writes, reads, collected>>
xfileVars == <<xenv, xunit, fileStream, sinks, endCb, doneWith, fnCalls, uncaught>>
jsonVars  == <<objs, output, jsonFailures, report>>
landVars  == <<tty, phase, cursorHidden, strip, sigint, tick, proc, termLog>>
termVars  == <<env, colorCall, layout, dot>>
htmlVars  == <<rootSuite, openSuites, containers, dom>>
ioVars    == <<xfileVars, jsonVars, landVars, termVars, htmlVars>>
extVars   == <<emitVars, ioVars>>
\* what the steps of one specification leave alone
besidesXFile == <<stackVars, diffVars, runVars, emitVars, jsonVars, landVars, termVars, htmlVars>>
besidesJSON  == <<stackVars, diffVars, runVars, emitVars, xfileVars, landVars, termVars, htmlVars>>
besidesLand  == <<stackVars, diffVars, runVars, emitVars, xfileVars, jsonVars, termVars, htmlVars>>
besidesHTML  == <<stackVars, diffVars, runVars, emitVars, xfileVars, jsonVars, landVars,
                  termVars>>
besidesTerm  == <<stackVars, diffVars, runVars, emitVars, xfileVars, jsonVars, landVars, htmlVars>>
vars      == <<stackVars, diffVars, runVars, extVars>>

None == "none"

Min(a, b) == IF a <= b THEN a ELSE b
Max(a, b) == IF a >= b THEN a ELSE b

(***************************************************************************)
(* JavaScript string primitives                                            *)
(***************************************************************************)

\* String.prototype.indexOf: the first 0-based position of sub in s, or -1
IndexOf(s, sub) ==
    LET hits == { i \in 0..(Len(s) - Len(sub)) : SubSeq(s, i + 1, i + Len(sub)) = sub }
    IN  IF hits = {} THEN -1 ELSE CHOOSE i \in hits : \A j \in hits : i <= j

\* String.prototype.slice(from, to) for 0 <= from, 0 <= to
Slice(s, from, to) == SubSeq(s, from + 1, Min(to, Len(s)))

\* String.prototype.slice(from) for 0 <= from
SliceFrom(s, from) == SubSeq(s, from + 1, Len(s))

\* how many times sub occurs in s
Occurrences(s, sub) ==
    Cardinality({ i \in 0..(Len(s) - Len(sub)) : SubSeq(s, i + 1, i + Len(sub)) = sub })

EndsWith(s, suffix) ==
    /\ Len(suffix) <= Len(s)
    /\ SubSeq(s, Len(s) - Len(suffix) + 1, Len(s)) = suffix

(***************************************************************************)
(* getFullErrorStack                                                       *)
(***************************************************************************)

\* the longest cause chain the model builds
MaxChain == 3
\* a cap on invocations, far above what the code needs, that keeps a
\* non-terminating variant finite
MaxCalls == 9

Circular == <<"<", "c", "i", "r", "c", "u", "l", "a", "r", ">">>
CausedBy == <<"\n", " ", " ", " ", "C", "a", "u", "s", "e", "d", " ", "b", "y", ":", " ">>
NL       == <<"\n">>

\* The texts an error object may carry: message, stack ("" when the error
\* has none) and, when the error has an inspect function, what it returns.
ErrTexts == {
    \* the stack starts with the message
    [message |-> <<"m">>, stack |-> <<"m", "\n", "a", "t">>, hasInspect |-> FALSE, inspect |-> <<>>],
    \* V8's usual "Error: m\n at": the message occurs after a prefix
    [message |-> <<"m">>, stack |-> <<"E", ":", "m", "\n", "a", "t">>, hasInspect |-> FALSE, inspect |-> <<>>],
    \* the message was changed after the stack was captured
    [message |-> <<"m">>, stack |-> <<"E", ":", "x", "\n", "a", "t">>, hasInspect |-> FALSE, inspect |-> <<>>],
    \* new Error(): no message
    [message |-> <<>>, stack |-> <<"E", "\n", "a", "t">>, hasInspect |-> FALSE, inspect |-> <<>>],
    \* no stack at all
    [message |-> <<"m">>, stack |-> <<>>, hasInspect |-> FALSE, inspect |-> <<>>],
    \* a custom inspect() wins over the message
    [message |-> <<"m">>, stack |-> <<"E", ":", "i", "\n", "a", "t">>, hasInspect |-> TRUE, inspect |-> <<"i">>] }

\* err.cause of an error that has none
NoCause == 0

\* lines 644-651
MessageOf(e) ==
    IF e.hasInspect THEN e.inspect
    ELSE IF e.message # <<>> THEN e.message
    ELSE <<>>

\* line 653: err.stack || message
RawStack(e) == IF e.stack # <<>> THEN e.stack ELSE MessageOf(e)

\* line 654: message ? stack.indexOf(message) : -1
MessageIndex(e) ==
    IF MessageOf(e) # <<>> THEN IndexOf(RawStack(e), MessageOf(e)) ELSE -1

\* line 659
SplitMsg(e) == Slice(RawStack(e), 0, MessageIndex(e) + Len(MessageOf(e)))

\* a variant that keeps the character after the message
SplitStack_keepSeparator(e) == SliceFrom(RawStack(e), MessageIndex(e) + Len(MessageOf(e)))

\* line 661
SplitStack(e) == SliceFrom(RawStack(e), MessageIndex(e) + Len(MessageOf(e)) + 1)

\* a variant without the visited-set check
IsSeen_never(e, s) == FALSE

\* line 641: seen && seen.has(err)
IsSeen(e, s) == e \in s

\* line 662: the cause is followed only in the branch where the message was found
FollowsCause(e) == MessageIndex(e) # -1 /\ e.cause # NoCause

\* the error has a cause that is neither an error already entered nor the
\* error itself (what line 664 is about to mark)
CauseUnvisited(e, id, s) == e.cause # NoCause /\ e.cause \notin (s \cup {id})

\* lines 666-669
WithCause(stack, causeRet) ==
    stack \o CausedBy \o causeRet.msg
          \o (IF causeRet.stack # <<>> THEN NL \o causeRet.stack ELSE <<>>)

NoRet == [message |-> <<>>, msg |-> <<>>, stack |-> <<>>]

NoCall == [err |-> 0, circular |-> FALSE, causeUnvisited |-> FALSE,
           recursed |-> FALSE, causeRet |-> NoRet, ret |-> NoRet]

\* line 642
CallCircular ==
    /\ pc = "call"
    /\ calls < MaxCalls
    /\ IsSeen(arg, seen)
    /\ calls' = calls + 1
    /\ ret' = [message |-> <<>>, msg |-> Circular, stack |-> <<>>]
    /\ lastCall' = [err |-> arg, circular |-> TRUE, causeUnvisited |-> FALSE,
                    recursed |-> FALSE, causeRet |-> NoRet, ret |-> ret']
    /\ pc' = "ret"
    /\ UNCHANGED <<heap, arg, seen, frames, diffVars, runVars, extVars>>

\* lines 644-656, 672: the message is empty or does not occur in the stack
CallNotFound ==
    /\ pc = "call"
    /\ calls < MaxCalls
    /\ ~IsSeen(arg, seen)
    /\ MessageIndex(heap[arg]) = -1
    /\ calls' = calls + 1
    /\ ret' = [message |-> MessageOf(heap[arg]), msg |-> MessageOf(heap[arg]),
               stack |-> RawStack(heap[arg])]
    /\ lastCall' = [err |-> arg, circular |-> FALSE,
                    causeUnvisited |-> CauseUnvisited(heap[arg], arg, seen),
                    recursed |-> FALSE, causeRet |-> NoRet, ret |-> ret']
    /\ pc' = "ret"
    /\ UNCHANGED <<heap, arg, seen, frames, diffVars, runVars, extVars>>

\* lines 657-661, 672: the message is found and there is no cause
CallFound ==
    /\ pc = "call"
    /\ calls < MaxCalls
    /\ ~IsSeen(arg, seen)
    /\ MessageIndex(heap[arg]) # -1
    /\ ~FollowsCause(heap[arg])
    /\ calls' = calls + 1
    /\ ret' = [message |-> MessageOf(heap[arg]), msg |-> SplitMsg(heap[arg]),
               stack |-> SplitStack(heap[arg])]
    /\ lastCall' = [err |-> arg, circular |-> FALSE, causeUnvisited |-> FALSE,
                    recursed |-> FALSE, causeRet |-> NoRet, ret |-> ret']
    /\ pc' = "ret"
    /\ UNCHANGED <<heap, arg, seen, frames, diffVars, runVars, extVars>>

\* lines 657-665: the message is found and the cause is entered
CallRecurse ==
    /\ pc = "call"
    /\ calls < MaxCalls
    /\ ~IsSeen(arg, seen)
    /\ FollowsCause(heap[arg])
    /\ calls' = calls + 1
    /\ seen' = seen \cup {arg}
    /\ frames' = Append(frames, [err |-> arg,
                                 message |-> MessageOf(heap[arg]),
                                 msg |-> SplitMsg(heap[arg]),
                                 stack |-> SplitStack(heap[arg]),
                                 causeUnvisited |-> CauseUnvisited(heap[arg], arg, seen)])
    /\ arg' = heap[arg].cause
    /\ pc' = "call"
    /\ UNCHANGED <<heap, ret, lastCall, diffVars, runVars, extVars>>

\* lines 665-672: the recursive call returned into its caller
ReturnToCaller ==
    /\ pc = "ret"
    /\ frames # <<>>
    /\ LET f == frames[Len(frames)]
       IN  /\ ret' = [message |-> f.message, msg |-> f.msg,
                      stack |-> WithCause(f.stack, ret)]
           /\ lastCall' = [err |-> f.err, circular |-> FALSE,
                           causeUnvisited |-> f.causeUnvisited,
                           recursed |-> TRUE, causeRet |-> ret, ret |-> ret']
    /\ frames' = SubSeq(frames, 1, Len(frames) - 1)
    /\ UNCHANGED <<heap, pc, arg, seen, calls, diffVars, runVars, extVars>>

\* the outermost call returned to list()
ReturnToTop ==
    /\ pc = "ret"
    /\ frames = <<>>
    /\ pc' = "done"
    /\ UNCHANGED <<heap, arg, seen, frames, ret, calls, lastCall, diffVars, runVars, extVars>>

\* the cause chains: errors 1..n, each the cause of the one before, the last
\* one with no cause (0) or with any error of the chain as its cause
Chains ==
    UNION { UNION { { [i \in 1..n |->
                        [message |-> t[i].message, stack |-> t[i].stack,
                         hasInspect |-> t[i].hasInspect, inspect |-> t[i].inspect,
                         cause |-> IF i < n THEN i + 1 ELSE back]]
                      : t \in [1..n -> ErrTexts] }
                    : back \in 0..n }
            : n \in 1..MaxChain }

IdleDiff ==
    /\ maxDiffSize = 0
    /\ inlineDiffs = FALSE
    /\ dcall = <<>>
    /\ dres = <<>>

IdleRun ==
    /\ reporter = None
    /\ hideDiff = FALSE
    /\ errs = <<>>
    /\ testErr = <<>>
    /\ testState = <<>>
    /\ duration = <<>>
    /\ speed = <<>>
    /\ failures = <<>>
    /\ xtests = <<>>
    /\ failLog = <<>>
    /\ nEvents = 0
    /\ stats = <<>>
    /\ ended = FALSE
    /\ out = <<>>
    /\ prevOut = <<>>

IdleEmit ==
    /\ listeners = <<>>
    /\ emitting = <<>>
    /\ cur = 0
    /\ writes = 0
    /\ reads = <<>>
    /\ collected = <<>>

IdleXFile ==
    /\ xenv = <<>>
    /\ xunit = "new"
    /\ fileStream = "none"
    /\ sinks = <<>>
    /\ endCb = "none"
    /\ doneWith = -1
    /\ fnCalls = <<>>
    /\ uncaught = FALSE

IdleJSON ==
    /\ objs = <<>>
    /\ output = FALSE
    /\ jsonFailures = <<>>
    /\ report = <<>>

IdleLand ==
    /\ tty = <<>>
    /\ phase = "constructed"
    /\ cursorHidden = FALSE
    /\ strip = <<>>
    /\ sigint = "armed"
    /\ tick = FALSE
    /\ proc = "running"
    /\ termLog = <<>>

IdleTerm ==
    /\ env = <<>>
    /\ colorCall = <<>>
    /\ layout = <<>>
    /\ dot = <<>>

IdleHTML ==
    /\ rootSuite = "idle"
    /\ openSuites = <<>>
    /\ containers = <<>>
    /\ dom = <<>>

IdleIO ==
    /\ IdleXFile
    /\ IdleJSON
    /\ IdleLand
    /\ IdleTerm
    /\ IdleHTML

IdleExt ==
    /\ IdleEmit
    /\ IdleIO

IdleStack ==
    /\ heap = <<>>
    /\ pc = "idle"
    /\ arg = 0
    /\ seen = {}
    /\ frames = <<>>
    /\ ret = NoRet
    /\ calls = 0
    /\ lastCall = NoCall

\* list() calls getFullErrorStack(err) with no `seen`
InitStack ==
    /\ heap \in Chains
    /\ pc = "call"
    /\ arg = 1
    /\ seen = {}
    /\ frames = <<>>
    /\ ret = NoRet
    /\ calls = 0
    /\ lastCall = NoCall
    /\ IdleDiff
    /\ IdleRun
    /\ IdleExt

NextStack ==
    \/ CallCircular
    \/ CallNotFound
    \/ CallFound
    \/ CallRecurse
    \/ ReturnToCaller
    \/ ReturnToTop

\* a synchronous call always runs on: every enabled step is eventually taken
SpecStack == InitStack /\ [][NextStack]_vars /\ WF_vars(NextStack)

(***************************************************************************)
(* generateDiff and the maxDiffSize option                                 *)
(***************************************************************************)

\* the longest string handed to generateDiff
MaxStr == 3

\* line 475: the default maxDiffSize
DefaultMaxDiffSize == 8192

\* the strings over a two-letter alphabet, up to MaxStr characters
Strings == UNION { [1..n -> {"x", "y"}] : n \in 0..MaxStr }

\* The values generateDiff may be called with.  Its callers stringify what
\* they pass, but the function is exported: undefined, a number and an
\* array stand for the values that are not strings.
DiffValues ==
    { [type |-> "string", s |-> str] : str \in Strings }
      \cup { [type |-> "undefined", s |-> <<>>],
             [type |-> "number", s |-> <<>>],
             [type |-> "array", s |-> <<"x", "y">>] }

\* reporterOption.maxDiffSize as given to a reporter's constructor
MaxDiffSizeOptions ==
    { [kind |-> "absent", n |-> 0], [kind |-> "junk", n |-> 0] }
      \cup { [kind |-> k, n |-> i] : k \in {"number", "numeric string"}, i \in -1..2 }

\* lines 749-753: Number(opt) is taken unless opt is undefined or not a number
NewMaxDiffSize(opt, old) ==
    IF opt.kind \in {"number", "numeric string"} THEN opt.n ELSE old

\* lines 610-612: .length and .slice exist on strings and arrays only
CanTruncate(v) == v.type \in {"string", "array"}

\* a variant that takes the smaller excess
Skipped_min(a, e, maxLen) ==
    IF maxLen > 0 THEN Min(Len(a.s) - maxLen, Len(e.s) - maxLen) ELSE 0

\* lines 608-610
Skipped(a, e, maxLen) ==
    IF maxLen > 0 THEN Max(Len(a.s) - maxLen, Len(e.s) - maxLen) ELSE 0

\* lines 609-612
Truncated(v, maxLen) ==
    IF maxLen > 0 THEN [type |-> v.type, s |-> Slice(v.s, 0, maxLen)] ELSE v

Thrown ==
    [kind |-> "throw", inline |-> FALSE, actual |-> <<>>, expected |-> <<>>,
     notice |-> FALSE, noticeSize |-> 0]

\* lines 622-628: the one-line "failed to generate Mocha diff" notice
Fallback ==
    [kind |-> "fallback", inline |-> FALSE, actual |-> <<>>, expected |-> <<>>,
     notice |-> FALSE, noticeSize |-> 0]

\* lines 607-620, the body of the try block.  inlineDiff and unifiedDiff
\* (the diff library) are total on strings; libThrows is the library's
\* choice on values that are not strings.
DiffBody(a, e, maxLen, inline, libThrows) ==
    IF maxLen > 0 /\ ~(CanTruncate(a) /\ CanTruncate(e)) THEN Thrown
    ELSE IF (a.type # "string" \/ e.type # "string") /\ libThrows THEN Thrown
    ELSE [kind |-> "diff", inline |-> inline,
          actual |-> Truncated(a, maxLen).s, expected |-> Truncated(e, maxLen).s,
          notice |-> Skipped(a, e, maxLen) > 0, noticeSize |-> maxLen]

\* a variant without the try/catch
generateDiff_noCatch(a, e, maxLen, inline, libThrows) ==
    DiffBody(a, e, maxLen, inline, libThrows)

\* lines 605-630
generateDiff(a, e, maxLen, inline, libThrows) ==
    IF DiffBody(a, e, maxLen, inline, libThrows).kind = "throw"
    THEN Fallback
    ELSE DiffBody(a, e, maxLen, inline, libThrows)

NoDiffCall ==
    [called |-> FALSE, actual |-> [type |-> "undefined", s |-> <<>>],
     expected |-> [type |-> "undefined", s |-> <<>>], maxDiffSize |-> 0,
     failed |-> FALSE]

\* lines 741-753: a reporter is constructed with options
Construct ==
    /\ ~dcall.called
    /\ \E opt \in MaxDiffSizeOptions : maxDiffSize' = NewMaxDiffSize(opt, maxDiffSize)
    /\ UNCHANGED <<inlineDiffs, dcall, dres, stackVars, runVars, extVars>>

\* lines 605-630: one call of generateDiff(actual, expected)
CallGenerateDiff ==
    /\ ~dcall.called
    /\ \E a \in DiffValues, e \in DiffValues, libThrows \in BOOLEAN :
         /\ dcall' = [called |-> TRUE, actual |-> a, expected |-> e,
                      maxDiffSize |-> maxDiffSize,
                      failed |-> DiffBody(a, e, maxDiffSize, inlineDiffs, libThrows).kind = "throw"]
         /\ dres' = generateDiff(a, e, maxDiffSize, inlineDiffs, libThrows)
    /\ UNCHANGED <<maxDiffSize, inlineDiffs, stackVars, runVars, extVars>>

\* lines 717 and xunit.js 162: the caller took the returned text; the
\* program is single-threaded, so the next call starts after that
TakeDiff ==
    /\ dcall.called
    /\ dcall' = NoDiffCall
    /\ dres' = Fallback
    /\ UNCHANGED <<maxDiffSize, inlineDiffs, stackVars, runVars, extVars>>

InitDiff ==
    /\ maxDiffSize = DefaultMaxDiffSize
    /\ inlineDiffs \in BOOLEAN
    /\ dcall = NoDiffCall
    /\ dres = Fallback
    /\ IdleStack
    /\ IdleRun
    /\ IdleExt

NextDiff ==
    \/ Construct
    \/ CallGenerateDiff
    \/ TakeDiff

SpecDiff == InitDiff /\ [][NextDiff]_vars


(***************************************************************************)
(* The lifecycle events, as handled by Base and the reporter built on it   *)
(***************************************************************************)

\* how many test events one run delivers
MaxEvents == 3

\* test.slow() of the two tests of the run: the default, and an even one
Slow == <<75, 4>>

TestIds == DOMAIN Slow

\* the durations the runner may report for a passing test
Durations == {2, 10, 40, 75, 100}

Str(text)  == [type |-> "string", text |-> text]
Num(text)  == [type |-> "number", text |-> text]
Undefined  == [type |-> "undefined", text |-> <<>>]

\* The error objects the runner may report (it passes objects only: a thrown
\* primitive is wrapped before the event is emitted).  isError is
\* `err instanceof Error`; showDiff is the property as the assertion
\* library set it.
ErrObjects == <<
    \* an assertion error on two strings
    [isError |-> TRUE,  showDiff |-> "unset", actual |-> Str(<<"x">>), expected |-> Str(<<"y">>)],
    \* an assertion error on two numbers
    [isError |-> TRUE,  showDiff |-> "true",  actual |-> Num(<<"1">>), expected |-> Num(<<"2">>)],
    \* an assertion error that asks for no diff
    [isError |-> TRUE,  showDiff |-> "false", actual |-> Str(<<"x">>), expected |-> Str(<<"y">>)],
    \* an error-like object (not instanceof Error) comparing a string with a number
    [isError |-> FALSE, showDiff |-> "unset", actual |-> Str(<<"1">>), expected |-> Num(<<"1">>)],
    \* a plain new Error(): no actual, no expected
    [isError |-> TRUE,  showDiff |-> "unset", actual |-> Undefined,    expected |-> Undefined] >>

ErrIds == DOMAIN ErrObjects

\* line 948-950: Object.prototype.toString gives the same tag
sameType(a, b) == a.type = b.type

\* a variant that does not look at err.showDiff
showDiff_ignoreFlag(e, h) ==
    /\ e # 0
    /\ sameType(h[e].actual, h[e].expected)
    /\ h[e].expected.type # "undefined"

\* lines 578-585
showDiff(e, h) ==
    /\ e # 0
    /\ ErrObjects[e].showDiff # "false"
    /\ sameType(h[e].actual, h[e].expected)
    /\ h[e].expected.type # "undefined"

\* utils.stringify: the value's text, as a string
stringify(v) == Str(v.text)

\* a variant that stringifies again what is already a string
stringifyDiffObjs_requote(e, h) ==
    [h EXCEPT ![e].actual = Str(<<"'">> \o @.text \o <<"'">>),
              ![e].expected = Str(<<"'">> \o @.text \o <<"'">>)]

\* lines 587-592
stringifyDiffObjs(e, h) ==
    IF h[e].actual.type # "string" \/ h[e].expected.type # "string"
    THEN [h EXCEPT ![e].actual = stringify(@), ![e].expected = stringify(@)]
    ELSE h

\* a variant with non-strict comparisons
SpeedOf_nonStrict(d, slow) ==
    IF d >= slow THEN "slow"
    ELSE IF 2 * d >= slow THEN "medium"
    ELSE "fast"

\* lines 755-761 (duration > slow / 2 is 2 * duration > slow)
SpeedOf(d, slow) ==
    IF d > slow THEN "slow"
    ELSE IF 2 * d > slow THEN "medium"
    ELSE "fast"

\* line 766: test.err && err instanceof Error
ChainsToPrevious(t, e) == testErr[t] # 0 /\ ErrObjects[e].isError

\* a variant that leaves err.actual and err.expected as they came
ErrsAfterFail_asGiven(t, e) ==
    IF ChainsToPrevious(t, e)
    THEN [errs EXCEPT ![testErr[t]].multiple = Append(@, e)]
    ELSE errs

\* lines 764-770: the error objects after the handler
ErrsAfterFail(t, e) ==
    LET h == IF showDiff(e, errs) THEN stringifyDiffObjs(e, errs) ELSE errs
    IN  IF ChainsToPrevious(t, e)
        THEN [h EXCEPT ![testErr[t]].multiple = Append(@, e)]
        ELSE h

\* lines 766-770: test.err after the handler
TestErrAfterFail(t, e) ==
    IF ChainsToPrevious(t, e) THEN testErr[t] ELSE e

\* a variant that lists a test only once
FailuresAfterFail_once(t) ==
    IF \E i \in DOMAIN failures : failures[i] = t THEN failures ELSE Append(failures, t)

\* line 771
FailuresAfterFail(t) == Append(failures, t)

\* xunit.js lines 72-82: XUnit collects every test that passed, failed or is pending
XTestsAfter(t) == IF reporter = "xunit" THEN Append(xtests, t) ELSE xtests

\* the stats collector counts the event before the reporter's handlers run
StatsAfter(kind) ==
    [passes   |-> stats.passes   + (IF kind = "pass" THEN 1 ELSE 0),
     pending  |-> stats.pending  + (IF kind = "pending" THEN 1 ELSE 0),
     failures |-> stats.failures + (IF kind = "fail" THEN 1 ELSE 0)]

\* EVENT_TEST_PASS: the runner has set test.duration and test.state; Base's
\* handler (lines 754-762) sets test.speed; XUnit's (xunit.js 76-78) collects.
\* Neither handler looks at the state of the run.
OnTestPass ==
    /\ nEvents < MaxEvents
    /\ \E t \in TestIds, d \in Durations :
         /\ duration' = [duration EXCEPT ![t] = d]
         /\ testState' = [testState EXCEPT ![t] = "passed"]
         /\ speed' = [speed EXCEPT ![t] = SpeedOf(d, Slow[t])]
         /\ xtests' = XTestsAfter(t)
    /\ nEvents' = nEvents + 1
    /\ stats' = StatsAfter("pass")
    /\ UNCHANGED <<reporter, hideDiff, errs, testErr, failures, failLog, ended, out, prevOut,
                   stackVars, diffVars, extVars>>

\* EVENT_TEST_FAIL: the runner has set test.state; Base's handler (lines
\* 763-772) records the error and the test; XUnit's (xunit.js 80-82) collects.
\* Neither handler looks at the state of the run.
FailEvent(t, e) ==
    /\ testState' = [testState EXCEPT ![t] = "failed"]
    /\ errs' = ErrsAfterFail(t, e)
    /\ testErr' = [testErr EXCEPT ![t] = TestErrAfterFail(t, e)]
    /\ failures' = FailuresAfterFail(t)
    /\ xtests' = XTestsAfter(t)
    /\ failLog' = Append(failLog, [test |-> t, err |-> e])
    /\ stats' = StatsAfter("fail")
    /\ UNCHANGED <<reporter, hideDiff, duration, speed, ended, out, prevOut,
                   stackVars, diffVars, extVars>>

OnTestFail ==
    /\ nEvents < MaxEvents
    /\ nEvents' = nEvents + 1
    /\ \E t \in TestIds, e \in ErrIds : FailEvent(t, e)

\* EVENT_TEST_PENDING: Base has no handler; XUnit's (xunit.js 72-74) collects
OnTestPending ==
    /\ nEvents < MaxEvents
    /\ \E t \in TestIds :
         /\ testState' = [testState EXCEPT ![t] = "pending"]
         /\ xtests' = XTestsAfter(t)
    /\ nEvents' = nEvents + 1
    /\ stats' = StatsAfter("pending")
    /\ UNCHANGED <<reporter, hideDiff, errs, testErr, duration, speed, failures,
                   failLog, ended, out, prevOut, stackVars, diffVars, extVars>>

\* the events of a run in progress
TestPass == ~ended /\ OnTestPass

TestFail == ~ended /\ OnTestFail

TestPending == ~ended /\ OnTestPending

\* the same events, delivered by the runner after EVENT_RUN_END
LateTestPass == ended /\ OnTestPass

LateTestFail == ended /\ OnTestFail

LateTestPending == ended /\ OnTestPending


\* lines 684-727, list(failures), from the i-th entry on.  multipleTest and
\* multipleErr are the closure's variables, h the error objects as the loop
\* has left them, blocks what was logged.  getFullErrorStack(err) throws a
\* TypeError when err is undefined (multipleErr.shift() on an empty array),
\* which ends list and epilogue.  The text of a block is SpecStack's and
\* SpecDiff's subject: a block records which error it shows, whether
\* generateDiff was called for it, and on which two strings.
RECURSIVE ListFrom(_, _, _, _, _)
ListFrom(i, multipleTest, multipleErr, h, blocks) ==
    IF i > Len(failures) THEN [blocks |-> blocks, errs |-> h, crashed |-> FALSE]
    ELSE
      LET test   == failures[i]
          multi  == testErr[test] # 0 /\ h[testErr[test]].multiple # <<>>
          queue  == IF multi /\ multipleTest # test
                    THEN <<testErr[test]>> \o h[testErr[test]].multiple
                    ELSE multipleErr
          err    == IF multi THEN (IF queue = <<>> THEN 0 ELSE Head(queue))
                    ELSE testErr[test]
          diff   == ~hideDiff /\ showDiff(err, h)
          after  == IF diff THEN stringifyDiffObjs(err, h) ELSE h
      IN  IF err = 0 THEN [blocks |-> blocks, errs |-> h, crashed |-> TRUE]
          ELSE ListFrom(i + 1,
                        IF multi THEN test ELSE multipleTest,
                        IF multi THEN Tail(queue) ELSE multipleErr,
                        after,
                        Append(blocks, [index |-> i, test |-> test, err |-> err,
                                        diff |-> diff,
                                        actual |-> IF diff THEN after[err].actual.text ELSE <<>>,
                                        expected |-> IF diff THEN after[err].expected.text ELSE <<>>]))

\* list(failures)
list == ListFrom(1, 0, <<>>, errs, <<>>)

Line(kind, n) == [kind |-> kind, n |-> n]

\* a variant that reports the failures before the pending tests
EpilogueLines_failingFirst ==
    <<Line("passing", stats.passes)>>
      \o (IF stats.failures # 0
          THEN <<Line("failing", stats.failures)>>
                 \o [i \in 1..Len(list.blocks) |-> Line("block", list.blocks[i].index)]
          ELSE <<>>)
      \o (IF stats.pending # 0 THEN <<Line("pending", stats.pending)>> ELSE <<>>)

\* lines 781-808: what epilogue logs, in order (blank lines apart): the
\* passing line, the pending line, the failing line and list's numbered
\* blocks
EpilogueLines ==
    <<Line("passing", stats.passes)>>
      \o (IF stats.pending # 0 THEN <<Line("pending", stats.pending)>> ELSE <<>>)
      \o (IF stats.failures # 0
          THEN <<Line("failing", stats.failures)>>
                 \o [i \in 1..Len(list.blocks) |-> Line("block", list.blocks[i].index)]
          ELSE <<>>)

\* xunit.js lines 148-182: the testcase element of one collected test
XUnitTest(t) ==
    IF testState[t] = "failed"
    THEN [kind |-> "testcase", test |-> t, child |-> "failure", err |-> testErr[t],
          diff |-> ~hideDiff /\ showDiff(testErr[t], errs)]
    ELSE IF testState[t] = "pending"
    THEN [kind |-> "testcase", test |-> t, child |-> "skipped", err |-> 0, diff |-> FALSE]
    ELSE [kind |-> "testcase", test |-> t, child |-> "none", err |-> 0, diff |-> FALSE]

\* xunit.js lines 84-106
XUnitReport ==
    <<[kind |-> "testsuite", test |-> 0, child |-> "none", err |-> 0, diff |-> FALSE]>>
      \o [i \in 1..Len(xtests) |-> XUnitTest(xtests[i])]
      \o <<[kind |-> "/testsuite", test |-> 0, child |-> "none", err |-> 0, diff |-> FALSE]>>

NoOut == [by |-> "none", lines |-> <<>>, blocks |-> <<>>, crashed |-> FALSE, xml |-> <<>>]

\* lines 781-808: one rendering of the epilogue
Epilogue ==
    [by |-> "epilogue", lines |-> EpilogueLines,
     blocks |-> IF stats.failures # 0 THEN list.blocks ELSE <<>>,
     crashed |-> stats.failures # 0 /\ list.crashed,
     xml |-> <<>>]

\* lines 712, 803: the error objects as list's stringifyDiffObjs leaves them
ErrsAfterEpilogue == IF stats.failures # 0 THEN list.errs ELSE errs

\* EVENT_RUN_END for Dot (part_000 lines 72-75): self.epilogue()
RunEndDot ==
    /\ ~ended
    /\ reporter = "dot"
    /\ ended' = TRUE
    /\ out' = Epilogue
    /\ errs' = ErrsAfterEpilogue
    /\ UNCHANGED <<reporter, hideDiff, testErr, testState, duration, speed, failures,
                   xtests, failLog, nEvents, stats, prevOut, stackVars, diffVars, extVars>>

\* EVENT_RUN_END for XUnit (xunit.js lines 84-106)
RunEndXUnit ==
    /\ ~ended
    /\ reporter = "xunit"
    /\ ended' = TRUE
    /\ out' = [by |-> "xunit", lines |-> <<>>, blocks |-> <<>>, crashed |-> FALSE,
               xml |-> XUnitReport]
    /\ UNCHANGED <<reporter, hideDiff, errs, testErr, testState, duration, speed,
                   failures, xtests, failLog, nEvents, stats, prevOut, stackVars, diffVars,
                   extVars>>

\* lines 781-808: epilogue is public, and is called once more on the same
\* stats and failures
EpilogueAgain ==
    /\ ended
    /\ reporter = "dot"
    /\ prevOut = NoOut
    /\ prevOut' = out
    /\ out' = Epilogue
    /\ errs' = ErrsAfterEpilogue
    /\ UNCHANGED <<reporter, hideDiff, testErr, testState, duration, speed, failures,
                   xtests, failLog, nEvents, stats, ended, stackVars, diffVars, extVars>>

\* the state after a reporter was constructed on a runner (lines 741-748):
\* no failures, and the tests untouched
Init ==
    /\ reporter \in {"dot", "xunit"}
    /\ hideDiff \in BOOLEAN
    /\ errs = [e \in ErrIds |-> [actual |-> ErrObjects[e].actual,
                                 expected |-> ErrObjects[e].expected,
                                 multiple |-> <<>>]]
    /\ testErr = [t \in TestIds |-> 0]
    /\ testState = [t \in TestIds |-> "none"]
    /\ duration = [t \in TestIds |-> 0]
    /\ speed = [t \in TestIds |-> "unset"]
    /\ failures = <<>>
    /\ xtests = <<>>
    /\ failLog = <<>>
    /\ nEvents = 0
    /\ stats = [passes |-> 0, pending |-> 0, failures |-> 0]
    /\ ended = FALSE
    /\ out = NoOut
    /\ prevOut = NoOut
    /\ IdleStack
    /\ IdleDiff
    /\ IdleExt

\* the runner delivers run-begin, the test events, then run-end, in that order
Next ==
    \/ TestPass
    \/ TestFail
    \/ TestPending
    \/ RunEndDot
    \/ RunEndXUnit
    \/ EpilogueAgain

Spec == Init /\ [][Next]_vars

\* a runner that goes on delivering test events after run-end
NextLate ==
    \/ TestPass
    \/ TestFail
    \/ TestPending
    \/ RunEndDot
    \/ RunEndXUnit
    \/ LateTestPass
    \/ LateTestFail
    \/ LateTestPending

SpecLate == Init /\ [][NextLate]_vars

\* how many fail events a run of failures only delivers
MaxFails == 4

\* the Error objects each test throws: every throw makes an object of its
\* own, so no two tests share one
Throws == <<{1, 2}, {3, 5}>>

\* EVENT_TEST_FAIL with a genuine Error of the test's own
FailWithOwnError ==
    /\ ~ended
    /\ Len(failLog) < MaxFails
    /\ UNCHANGED nEvents
    /\ \E t \in TestIds : \E e \in Throws[t] : FailEvent(t, e)

\* a Dot reporter, as Init constructs it
InitFails == Init /\ reporter = "dot"

\* a run of failures only: fail events (lines 763-772), then run-end and
\* list (lines 684-727)
NextFails ==
    \/ FailWithOwnError
    \/ RunEndDot

SpecFails == InitFails /\ [][NextFails]_vars


(***************************************************************************)
(* The dispatch of EVENT_TEST_PASS: Base's listener and the reporter's     *)
(***************************************************************************)

\* how many pass events one run delivers
MaxPasses == 3

\* the reporters that read test.speed
Reporters == {"dot", "list", "html", "json"}

\* a variant whose constructor registers its own listener before calling Base
ListenersOf_reporterFirst(r) == <<r, "base">>

\* Every constructor starts with Base.call(this, runner, options) (part_000
\* line 37, list.js 39, html.js 62, json.js 40), which registers Base's
\* listener (line 754); the reporter's own runner.on(EVENT_TEST_PASS, ...)
\* comes later (part_000 line 54, list.js 57, html.js 160, json.js 60).
ListenersOf(r) == <<"base", r>>

\* one read of test.speed
Read(by, t) == [by |-> by, test |-> t, speed |-> speed[t], state |-> testState[t],
                duration |-> duration[t], writes |-> writes]

\* the listener the emitter calls next
NextListener(name) == emitting # <<>> /\ Head(emitting) = name

\* the runner sets test.duration and test.state, then emits EVENT_TEST_PASS:
\* the emitter calls the listeners in registration order
EmitTestPass ==
    /\ ~ended
    /\ cur = 0
    /\ nEvents < MaxPasses
    /\ \E t \in TestIds, d \in Durations :
         /\ duration' = [duration EXCEPT ![t] = d]
         /\ testState' = [testState EXCEPT ![t] = "passed"]
         /\ cur' = t
    /\ emitting' = listeners
    /\ writes' = 0
    /\ nEvents' = nEvents + 1
    /\ UNCHANGED <<reporter, hideDiff, errs, testErr, speed, failures, xtests, failLog,
                   stats, ended, out, prevOut, listeners, reads, collected, stackVars,
                   diffVars, ioVars>>

\* lines 754-762: Base's listener
BasePass ==
    /\ NextListener("base")
    /\ speed' = [speed EXCEPT ![cur] = SpeedOf(duration[cur], Slow[cur])]
    /\ writes' = writes + 1
    /\ emitting' = Tail(emitting)
    /\ UNCHANGED <<reporter, hideDiff, errs, testErr, testState, duration, failures, xtests,
                   failLog, nEvents, stats, ended, out, prevOut, listeners, cur, reads, collected,
                   stackVars, diffVars, ioVars>>

\* part_000 lines 54-63: Dot's listener colors the dot by test.speed
DotPass ==
    /\ NextListener("dot")
    /\ reads' = Append(reads, Read("dot", cur))
    /\ emitting' = Tail(emitting)
    /\ UNCHANGED <<runVars, listeners, cur, writes, collected, stackVars, diffVars,
                   ioVars>>

\* list.js lines 57-64: List's listener colors the duration by test.speed
ListPass ==
    /\ NextListener("list")
    /\ reads' = Append(reads, Read("list", cur))
    /\ emitting' = Tail(emitting)
    /\ UNCHANGED <<runVars, listeners, cur, writes, collected, stackVars, diffVars,
                   ioVars>>

\* html.js lines 160-171: HTML's listener puts test.speed in the element's class
HTMLPass ==
    /\ NextListener("html")
    /\ reads' = Append(reads, Read("html", cur))
    /\ emitting' = Tail(emitting)
    /\ UNCHANGED <<runVars, listeners, cur, writes, collected, stackVars, diffVars,
                   ioVars>>

\* json.js lines 60-62: passes.push(test)
JSONPass ==
    /\ NextListener("json")
    /\ collected' = [collected EXCEPT !.passes = Append(@, cur)]
    /\ emitting' = Tail(emitting)
    /\ UNCHANGED <<runVars, listeners, cur, writes, reads, stackVars, diffVars, ioVars>>

\* EVENT_TEST_END follows the pass event; json.js lines 56-58: tests.push(test)
EmitTestEnd ==
    /\ cur # 0
    /\ emitting = <<>>
    /\ collected' = IF reporter = "json"
                    THEN [collected EXCEPT !.tests = Append(@, cur)]
                    ELSE collected
    /\ cur' = 0
    /\ UNCHANGED <<runVars, listeners, emitting, writes, reads, stackVars, diffVars,
                   ioVars>>

\* json.js lines 72-79, 108-123: clean(test) reads test.speed of every
\* collected test
RunEndJSON ==
    /\ ~ended
    /\ cur = 0
    /\ reporter = "json"
    /\ ended' = TRUE
    /\ reads' = reads \o [i \in 1..Len(collected.tests) |-> Read("json", collected.tests[i])]
                      \o [i \in 1..Len(collected.passes) |-> Read("json", collected.passes[i])]
    /\ UNCHANGED <<reporter, hideDiff, errs, testErr, testState, duration, speed, failures,
                   xtests, failLog, nEvents, stats, out, prevOut, listeners, emitting, cur, writes,
                   collected, stackVars, diffVars, ioVars>>

\* part_000 lines 72-75, list.js 71: the epilogue reads the stats only; HTML
\* has no run-end listener
RunEndNoSpeed ==
    /\ ~ended
    /\ cur = 0
    /\ reporter \in {"dot", "list", "html"}
    /\ ended' = TRUE
    /\ UNCHANGED <<reporter, hideDiff, errs, testErr, testState, duration, speed, failures,
                   xtests, failLog, nEvents, stats, out, prevOut, extVars, stackVars, diffVars>>

\* a reporter was constructed on a runner: the listeners are registered
InitEmit ==
    /\ reporter \in Reporters
    /\ listeners = ListenersOf(reporter)
    /\ emitting = <<>>
    /\ cur = 0
    /\ writes = 0
    /\ reads = <<>>
    /\ collected = [tests |-> <<>>, passes |-> <<>>]
    /\ hideDiff = FALSE
    /\ errs = <<>>
    /\ testErr = <<>>
    /\ testState = [t \in TestIds |-> "none"]
    /\ duration = [t \in TestIds |-> 0]
    /\ speed = [t \in TestIds |-> "unset"]
    /\ failures = <<>>
    /\ xtests = <<>>
    /\ failLog = <<>>
    /\ nEvents = 0
    /\ stats = <<>>
    /\ ended = FALSE
    /\ out = <<>>
    /\ prevOut = <<>>
    /\ IdleStack
    /\ IdleDiff
    /\ IdleIO

NextEmit ==
    \/ EmitTestPass
    \/ BasePass
    \/ DotPass
    \/ ListPass
    \/ HTMLPass
    \/ JSONPass
    \/ EmitTestEnd
    \/ RunEndJSON
    \/ RunEndNoSpeed

SpecEmit == InitEmit /\ [][NextEmit]_vars


(***************************************************************************)
(* XUnit's output: the file stream, write() and done()                     *)
(***************************************************************************)

\* how many testcase lines a report holds at most, and how many failures
\* done() is told of
MaxCases == 2

\* the options and the platform: reporterOptions.output is given or not,
\* fs.createWriteStream exists or not (a browser), process.stdout exists or not
XEnvs == [output : BOOLEAN, browser : BOOLEAN, stdout : BOOLEAN]

\* no line written yet.  buffered: accepted by the stream, not yet in the
\* file; lost: handed to a stream that failed
NoSinks == [buffered |-> <<>>, inFile |-> <<>>, lost |-> <<>>, stdout |-> <<>>,
            console |-> <<>>]

\* xunit.js lines 55-68: with an output option the constructor throws the
\* unsupported-environment error where there is no fs.createWriteStream, and
\* otherwise calls fs.mkdirSync, which returns or throws, with no try around
\* it, then fs.createWriteStream
ConstructXUnit ==
    /\ xunit = "new"
    /\ \/ /\ ~xenv.output
          /\ xunit' = "ok"
          /\ fileStream' = "none"
       \/ /\ xenv.output
          /\ xenv.browser
          /\ xunit' = "unsupported"
          /\ fileStream' = "none"
       \/ /\ xenv.output
          /\ ~xenv.browser
          /\ \E mkdirSync \in {"returns", "throws"} :
               /\ xunit' = IF mkdirSync = "throws" THEN "threw" ELSE "ok"
               /\ fileStream' = IF mkdirSync = "throws" THEN "none" ELSE "open"
    /\ UNCHANGED <<xenv, sinks, endCb, doneWith, fnCalls, uncaught, besidesXFile>>

\* xunit.js lines 134-142, for the lines of one report: a stream that has
\* failed drops what it is handed
Write(s, lines) ==
    IF fileStream # "none"
    THEN IF fileStream = "errored"
         THEN [s EXCEPT !.lost = @ \o lines]
         ELSE [s EXCEPT !.buffered = @ \o lines]
    ELSE IF xenv.stdout
    THEN [s EXCEPT !.stdout = @ \o lines]
    ELSE [s EXCEPT !.console = @ \o lines]

\* xunit.js lines 84-106: the opening tag, one line per collected test, the
\* closing tag (lines are numbered in the order written)
RunEndXFile ==
    /\ xunit = "ok"
    /\ \E k \in 0..MaxCases : sinks' = Write(sinks, [i \in 1..(k + 2) |-> i])
    /\ xunit' = "reported"
    /\ UNCHANGED <<xenv, fileStream, endCb, doneWith, fnCalls, uncaught, besidesXFile>>

\* the stream writes its oldest buffered line to the file
Flush ==
    /\ fileStream \in {"open", "ending"}
    /\ sinks.buffered # <<>>
    /\ sinks' = [sinks EXCEPT !.inFile = Append(@, Head(sinks.buffered)),
                              !.buffered = Tail(@)]
    /\ UNCHANGED <<xenv, xunit, fileStream, endCb, doneWith, fnCalls, uncaught,
                   besidesXFile>>

\* the stream fails (the file cannot be opened, or a write fails): it emits
\* 'error', for which the reporter registers no listener, and what it had
\* buffered is gone
StreamError ==
    /\ fileStream \in {"open", "ending"}
    /\ fileStream' = "errored"
    /\ sinks' = [sinks EXCEPT !.lost = @ \o sinks.buffered, !.buffered = <<>>]
    /\ uncaught' = TRUE
    /\ UNCHANGED <<xenv, xunit, endCb, doneWith, fnCalls, besidesXFile>>

\* a variant that calls fn at once, stream or not
FnCallsAfterDone_eager(f) ==
    Append(fnCalls, [failures |-> f, from |-> "done", stream |-> fileStream])

\* xunit.js lines 120-126: fn is called here only without a file stream
FnCallsAfterDone(f) ==
    IF fileStream # "none" THEN fnCalls
    ELSE Append(fnCalls, [failures |-> f, from |-> "done", stream |-> fileStream])

\* xunit.js lines 119-127: done(failures, fn), called once the run is over
Done ==
    /\ xunit = "reported"
    /\ doneWith = -1
    /\ \E f \in 0..MaxCases :
         /\ doneWith' = f
         /\ fnCalls' = FnCallsAfterDone(f)
    /\ endCb' = IF fileStream # "none" THEN "pending" ELSE endCb
    /\ fileStream' = IF fileStream = "open" THEN "ending" ELSE fileStream
    /\ UNCHANGED <<xenv, xunit, sinks, uncaught, besidesXFile>>

\* the ended stream has written everything it was handed
StreamFinish ==
    /\ fileStream = "ending"
    /\ sinks.buffered = <<>>
    /\ fileStream' = "finished"
    /\ UNCHANGED <<xenv, xunit, sinks, endCb, doneWith, fnCalls, uncaught, besidesXFile>>

\* xunit.js lines 121-123: the callback given to fileStream.end, which the
\* stream calls once it has finished or failed
EndCallback ==
    /\ endCb = "pending"
    /\ fileStream \in {"finished", "errored"}
    /\ fnCalls' = Append(fnCalls, [failures |-> doneWith, from |-> "end",
                                   stream |-> fileStream])
    /\ endCb' = "called"
    /\ UNCHANGED <<xenv, xunit, fileStream, sinks, doneWith, uncaught, besidesXFile>>

InitXFile ==
    /\ xenv \in XEnvs
    /\ xunit = "new"
    /\ fileStream = "none"
    /\ sinks = NoSinks
    /\ endCb = "none"
    /\ doneWith = -1
    /\ fnCalls = <<>>
    /\ uncaught = FALSE
    /\ IdleStack
    /\ IdleDiff
    /\ IdleRun
    /\ IdleEmit
    /\ IdleJSON
    /\ IdleLand
    /\ IdleTerm
    /\ IdleHTML

NextXFile ==
    \/ ConstructXUnit
    \/ RunEndXFile
    \/ Flush
    \/ StreamError
    \/ Done
    \/ StreamFinish
    \/ EndCallback

\* a stream that can write does write, and calls the callback it was given
SpecXFile ==
    /\ InitXFile
    /\ [][NextXFile]_vars
    /\ WF_vars(Flush)
    /\ WF_vars(StreamFinish)
    /\ WF_vars(EndCallback)


(***************************************************************************)
(* The JSON reporter: clean, cleanCycles and the run-end handler           *)
(***************************************************************************)

\* how many objects the failed test's err holds
MaxObjs == 2

\* The object graphs: object 1 is the err handed to cleanCycles.  Each object
\* has the fields f and g, in this order; a field holds a number (0) or a
\* reference to an object.  plain: the object inherits Object.prototype's
\* toString; an object created with Object.create(null) does not.
ObjGraphs ==
    UNION { [1..n -> [f : 0..n, g : 0..n, plain : BOOLEAN]] : n \in 1..MaxObjs }

Node(path, kind, obj) == [path |-> path, kind |-> kind, obj |-> obj]

\* json.js lines 136-137: the replacer's test, on an object
InCache(v, cache) == v \in cache

\* json.js lines 134-145: JSON.stringify(obj, replacer) on the value v found
\* at path, then JSON.parse.  cache is the replacer's array; stack holds the
\* objects JSON.stringify is inside of (it throws a TypeError on meeting one
\* of them again).  '' + value (line 139) is "[object Object]" for a plain
\* object and throws a TypeError for one without a toString.
RECURSIVE Serialize(_, _, _, _, _)
Serialize(h, v, path, cache, stack) ==
    IF v = 0
    THEN [nodes |-> {Node(path, "number", 0)}, cache |-> cache, threw |-> FALSE]
    ELSE IF InCache(v, cache)
    THEN IF h[v].plain
         THEN [nodes |-> {Node(path, "marker", 0)}, cache |-> cache, threw |-> FALSE]
         ELSE [nodes |-> {}, cache |-> cache, threw |-> TRUE]
    ELSE IF v \in stack
    THEN [nodes |-> {}, cache |-> cache, threw |-> TRUE]
    ELSE LET rf == Serialize(h, h[v].f, Append(path, "f"), cache \cup {v}, stack \cup {v})
             rg == Serialize(h, h[v].g, Append(path, "g"), rf.cache, stack \cup {v})
         IN  IF rf.threw THEN rf
             ELSE IF rg.threw THEN rg
             ELSE [nodes |-> {Node(path, "object", v)} \cup rf.nodes \cup rg.nodes,
                   cache |-> rg.cache, threw |-> FALSE]

\* json.js lines 132-146
cleanCycles(h) ==
    [nodes |-> Serialize(h, 1, <<>>, {}, {}).nodes,
     threw |-> Serialize(h, 1, <<>>, {}, {}).threw]

NoReport == [ran |-> FALSE, threw |-> FALSE, errs |-> <<>>, calls |-> <<>>,
             file |-> "none", stdout |-> "none"]

\* json.js lines 64-66: failures.push(test); the test's err is object 1
JSONTestFail ==
    /\ ~report.ran
    /\ jsonFailures = <<>>
    /\ jsonFailures' = <<1>>
    /\ UNCHANGED <<objs, output, report, besidesJSON>>

\* json.js lines 84-96, once the text is built: the calls made, in order,
\* and where the text ended up
Deliver(cleaned, mkdirSync, writeFileSync) ==
    IF ~output
    THEN [ran |-> TRUE, threw |-> FALSE, errs |-> cleaned,
          calls |-> <<"stdout.write">>, file |-> "none", stdout |-> "json"]
    ELSE IF mkdirSync = "throws"
    THEN [ran |-> TRUE, threw |-> FALSE, errs |-> cleaned,
          calls |-> <<"mkdirSync", "console.error", "stdout.write">>,
          file |-> "none", stdout |-> "json"]
    ELSE IF writeFileSync = "throws"
    THEN [ran |-> TRUE, threw |-> FALSE, errs |-> cleaned,
          calls |-> <<"mkdirSync", "writeFileSync", "console.error", "stdout.write">>,
          file |-> "partial", stdout |-> "json"]
    ELSE [ran |-> TRUE, threw |-> FALSE, errs |-> cleaned,
          calls |-> <<"mkdirSync", "writeFileSync">>, file |-> "json", stdout |-> "none"]

\* json.js lines 72-97: failures.map(clean) calls cleanCycles on each err;
\* when it throws, the handler ends there
RunEndJSONFile ==
    /\ ~report.ran
    /\ \E mkdirSync \in {"returns", "throws"}, writeFileSync \in {"returns", "throws"} :
         LET cleaned == [i \in DOMAIN jsonFailures |-> cleanCycles(objs)]
         IN  report' = IF \E i \in DOMAIN cleaned : cleaned[i].threw
                       THEN [ran |-> TRUE, threw |-> TRUE, errs |-> <<>>, calls |-> <<>>,
                             file |-> "none", stdout |-> "none"]
                       ELSE Deliver(cleaned, mkdirSync, writeFileSync)
    /\ UNCHANGED <<objs, output, jsonFailures, besidesJSON>>

\* json.js lines 39-54: a reporter was constructed (outside a browser when
\* an output file is asked for)
InitJSON ==
    /\ objs \in ObjGraphs
    /\ output \in BOOLEAN
    /\ jsonFailures = <<>>
    /\ report = NoReport
    /\ IdleStack
    /\ IdleDiff
    /\ IdleRun
    /\ IdleEmit
    /\ IdleXFile
    /\ IdleLand
    /\ IdleTerm
    /\ IdleHTML

NextJSON ==
    \/ JSONTestFail
    \/ RunEndJSONFile

SpecJSON == InitJSON /\ [][NextJSON]_vars


(***************************************************************************)
(* The Landing reporter: the cursor, the strip and SIGINT                  *)
(***************************************************************************)

\* how many test-end events one run delivers
MaxTestEnds == 3

\* the widths of the window the model runs in (line 537: 75 by default)
WindowWidths == {1, 4, 75}

\* landing.js line 57: (Base.window.width * 0.75) | 0
LandingWidth(w) == (3 * w) \div 4

\* a variant whose SIGINT listener leaves the cursor as it is
CursorAfterSigint_asIs == cursorHidden

\* landing.js line 103 and lines 556-558: cursor.show() makes it visible
CursorAfterSigint == FALSE

\* landing.js lines 70-73: cursor.hide() writes the escape only on a tty
\* (lines 552-554)
LandingRunBegin ==
    /\ proc = "running"
    /\ ~tick
    /\ phase = "constructed"
    /\ phase' = "begun"
    /\ cursorHidden' = tty.isatty
    /\ termLog' = Append(termLog, "hide")
    /\ UNCHANGED <<tty, strip, sigint, tick, proc, besidesLand>>

\* a variant that draws the plane one column further
PlaneCol_oneFurther(s, width) ==
    IF s.crashed = -1 THEN (width * (s.n + 1)) \div (s.total + 1) + 1 ELSE s.crashed

\* landing.js line 77: crashed === -1 ? ((width * ++n) / ++total) | 0 : crashed
PlaneCol(s, width) ==
    IF s.crashed = -1 THEN (width * (s.n + 1)) \div (s.total + 1) ELSE s.crashed

\* landing.js lines 75-93: n and total grow only while the plane has not
\* crashed
LandingTestEnd ==
    /\ proc = "running"
    /\ ~tick
    /\ phase = "begun"
    /\ strip.events < MaxTestEnds
    /\ \E state \in {"passed", "failed"} :
         LET flying == strip.crashed = -1
             col    == PlaneCol(strip, tty.width)
         IN  strip' = [n       |-> IF flying THEN strip.n + 1 ELSE strip.n,
                       total   |-> IF flying THEN strip.total + 1 ELSE strip.total,
                       crashed |-> IF state = "failed" THEN col ELSE strip.crashed,
                       col     |-> col,
                       plane   |-> IF state = "failed" THEN "plane crash" ELSE strip.plane,
                       events  |-> strip.events + 1]
    /\ UNCHANGED <<tty, phase, cursorHidden, sigint, tick, proc, termLog, besidesLand>>

\* landing.js lines 95-99: cursor.show(), then the epilogue
LandingRunEnd ==
    /\ proc = "running"
    /\ ~tick
    /\ phase = "begun"
    /\ phase' = "ended"
    /\ cursorHidden' = FALSE
    /\ termLog' = termLog \o <<"show", "epilogue">>
    /\ UNCHANGED <<tty, strip, sigint, tick, proc, besidesLand>>

\* landing.js lines 102-104: the process gets a SIGINT while the listener
\* registered with process.once is still there
Sigint ==
    /\ proc = "running"
    /\ ~tick
    /\ sigint = "armed"
    /\ sigint' = "fired"
    /\ cursorHidden' = CursorAfterSigint
    /\ termLog' = Append(termLog, "show")
    /\ tick' = TRUE
    /\ UNCHANGED <<tty, phase, strip, proc, besidesLand>>

\* landing.js lines 104-106: the nextTick callback raises SIGINT again; the
\* listener is gone, so the signal ends the process
Rekill ==
    /\ proc = "running"
    /\ tick
    /\ tick' = FALSE
    /\ proc' = "killed"
    /\ termLog' = Append(termLog, "kill")
    /\ UNCHANGED <<tty, phase, cursorHidden, strip, sigint, besidesLand>>

\* the run is over and the process exits
Exit ==
    /\ proc = "running"
    /\ ~tick
    /\ phase = "ended"
    /\ proc' = "exited"
    /\ termLog' = Append(termLog, "exit")
    /\ UNCHANGED <<tty, phase, cursorHidden, strip, sigint, tick, besidesLand>>

\* landing.js lines 53-63: a Landing reporter was constructed
InitLanding ==
    /\ tty \in { [isatty |-> i, width |-> LandingWidth(w)] : i \in BOOLEAN, w \in WindowWidths }
    /\ phase = "constructed"
    /\ cursorHidden = FALSE
    /\ strip = [n |-> 0, total |-> 0, crashed |-> -1, col |-> 0, plane |-> "plane",
                events |-> 0]
    /\ sigint = "armed"
    /\ tick = FALSE
    /\ proc = "running"
    /\ termLog = <<>>
    /\ IdleStack
    /\ IdleDiff
    /\ IdleRun
    /\ IdleEmit
    /\ IdleXFile
    /\ IdleJSON
    /\ IdleTerm
    /\ IdleHTML

NextLanding ==
    \/ LandingRunBegin
    \/ LandingTestEnd
    \/ LandingRunEnd
    \/ Sigint
    \/ Rekill
    \/ Exit

SpecLanding == InitLanding /\ [][NextLanding]_vars


(***************************************************************************)
(* The terminal's capabilities: isatty, useColors, color and window.width  *)
(***************************************************************************)

\* line 537: window.width when the streams are no terminals
DefaultWindowWidth == 75

\* line 447: the width taken in a Web Worker
WorkerWidth == 480

\* the column counts (or innerWidth) the platform may report
Columns == {1, 4, 80}

\* The platforms the module may be loaded on.  supportsColor is
\* supportsColor.stdout as the supports-color library computed it (it can
\* be forced for a stream that is no terminal), mochaColors is
\* process.env.MOCHA_COLORS !== undefined, hasInner is
\* 'innerHeight' in globalThis.
Envs ==
    [isBrowser : BOOLEAN, stdoutTTY : BOOLEAN, stderrTTY : BOOLEAN,
     supportsColor : BOOLEAN, mochaColors : BOOLEAN, hasInner : BOOLEAN,
     columns : Columns]

\* line 453
isatty(e) == e.isBrowser \/ (e.stdoutTTY /\ e.stderrTTY)

\* a variant that also asks for terminals
useColors_onTerminal(e) ==
    ~e.isBrowser /\ (e.supportsColor \/ e.mochaColors) /\ e.stdoutTTY /\ e.stderrTTY

\* lines 463-465
useColors(e) == ~e.isBrowser /\ (e.supportsColor \/ e.mochaColors)

\* lines 480-502: some entries of the default color map
colors == [pass |-> "90", fail |-> "31", pending |-> "36", slow |-> "31"]

ColorTypes == DOMAIN colors

\* lines 526-531
color(type, str, e) ==
    IF ~useColors(e) THEN str
    ELSE <<"ESC[", colors[type], "m">> \o str \o <<"ESC[", "0", "m">>

\* lines 442-448
getBrowserWindowSize(e) == IF e.hasInner THEN e.columns ELSE WorkerWidth

\* lines 536-546
WindowWidth(e) ==
    IF isatty(e)
    THEN (IF e.isBrowser THEN getBrowserWindowSize(e) ELSE e.columns)
    ELSE DefaultWindowWidth

\* a variant that takes the window's width as it is
DotWidth_unscaled(w) == w

\* part_000 line 40: (Base.window.width * 0.75) | 0
DotWidth(w) == (3 * w) \div 4

NoColorCall == [called |-> FALSE, type |-> "pass", str |-> <<>>, result |-> <<>>]

NoLayout == [by |-> "none", width |-> 0]

\* lines 526-531: one call of color(type, str)
CallColor ==
    /\ ~colorCall.called
    /\ \E type \in ColorTypes, str \in Strings :
         colorCall' = [called |-> TRUE, type |-> type, str |-> str,
                       result |-> color(type, str, env)]
    /\ UNCHANGED <<env, layout, dot, besidesTerm>>

\* part_000 lines 36-41: a Dot reporter is constructed
NewDot ==
    /\ layout.by = "none"
    /\ layout' = [by |-> "dot", width |-> DotWidth(WindowWidth(env))]
    /\ UNCHANGED <<env, colorCall, dot, besidesTerm>>

\* landing.js lines 53-57: a Landing reporter is constructed
NewLanding ==
    /\ layout.by = "none"
    /\ layout' = [by |-> "landing", width |-> LandingWidth(WindowWidth(env))]
    /\ UNCHANGED <<env, colorCall, dot, besidesTerm>>

\* the module was loaded (lines 440-546)
InitTerm ==
    /\ env \in Envs
    /\ colorCall = NoColorCall
    /\ layout = NoLayout
    /\ dot = <<>>
    /\ IdleStack
    /\ IdleDiff
    /\ IdleRun
    /\ IdleEmit
    /\ IdleXFile
    /\ IdleJSON
    /\ IdleLand
    /\ IdleHTML

NextTerm ==
    \/ CallColor
    \/ NewDot
    \/ NewLanding

SpecTerm == InitTerm /\ [][NextTerm]_vars


(***************************************************************************)
(* The Dot reporter's symbols and line breaks                              *)
(***************************************************************************)

\* how many test events one run of Dot delivers
MaxSymbols == 7

\* the line break with its indent (part_000 lines 49, 56, 67)
Break == "\n  "

\* part_000 lines 48, 55, 66: ++n % width === 0, where a remainder by zero
\* is NaN and equals nothing
AtRowStart(n, width) == width # 0 /\ n % width = 0

\* a variant that counts from one
DotWrites_fromOne(symbol) ==
    (IF AtRowStart(dot.n + 2, dot.width) THEN <<Break>> ELSE <<>>) \o <<symbol>>

\* what one handler writes: the break when due, then the symbol (the color
\* around the symbol is color's, above)
DotWrites(symbol) ==
    (IF AtRowStart(dot.n + 1, dot.width) THEN <<Break>> ELSE <<>>) \o <<symbol>>

\* part_000 lines 47-52
DotOnPending ==
    /\ dot.n + 1 < MaxSymbols
    /\ dot' = [dot EXCEPT !.n = @ + 1, !.written = @ \o DotWrites(",")]
    /\ UNCHANGED <<env, colorCall, layout, besidesTerm>>

\* part_000 lines 54-63
DotOnPass ==
    /\ dot.n + 1 < MaxSymbols
    /\ dot' = [dot EXCEPT !.n = @ + 1, !.written = @ \o DotWrites(".")]
    /\ UNCHANGED <<env, colorCall, layout, besidesTerm>>

\* part_000 lines 65-70
DotOnFail ==
    /\ dot.n + 1 < MaxSymbols
    /\ dot' = [dot EXCEPT !.n = @ + 1, !.written = @ \o DotWrites("!")]
    /\ UNCHANGED <<env, colorCall, layout, besidesTerm>>

\* part_000 lines 36-41: a Dot reporter was constructed
InitDot ==
    /\ \E w \in WindowWidths :
         dot = [width |-> DotWidth(w), n |-> -1, written |-> <<>>]
    /\ env = <<>>
    /\ colorCall = <<>>
    /\ layout = <<>>
    /\ IdleStack
    /\ IdleDiff
    /\ IdleRun
    /\ IdleEmit
    /\ IdleXFile
    /\ IdleJSON
    /\ IdleLand
    /\ IdleHTML

NextDot ==
    \/ DotOnPending
    \/ DotOnPass
    \/ DotOnFail

SpecDot == InitDot /\ [][NextDot]_vars


(***************************************************************************)
(* The HTML reporter: suites, containers and test elements                 *)
(***************************************************************************)

\* how deep the suites below the root nest
MaxDepth == 2

\* how many elements one run appends
MaxNodes == 4

\* html.js line 90: the <ul id="mocha-report">
Report == 0

\* the innermost open suite, as the runner sees it (Report when only the
\* root suite is open)
Innermost == IF openSuites = <<>> THEN Report ELSE openSuites[Len(openSuites)]

\* a variant that shifts for the root suite as well
ContainersAfterSuiteEnd_rootToo(isRoot) == Tail(containers)

\* html.js lines 147-157: stack.shift(), unless the suite is the root
ContainersAfterSuiteEnd(isRoot) == IF isRoot THEN containers ELSE Tail(containers)

\* html.js lines 239-244, appendToStack(el): stack[0].appendChild(el) when
\* there is a stack[0]
appendToStack(kind) ==
    IF containers # <<>>
    THEN Append(dom, [kind |-> kind, id |-> Len(dom) + 1, parent |-> Head(containers),
                      within |-> Innermost])
    ELSE dom

\* html.js lines 129-132: EVENT_SUITE_BEGIN for the root suite
HTMLRootBegin ==
    /\ rootSuite = "idle"
    /\ rootSuite' = "running"
    /\ UNCHANGED <<openSuites, containers, dom, besidesHTML>>

\* html.js lines 129-145: EVENT_SUITE_BEGIN for another suite: its <li> goes
\* into stack[0], and a new <ul> inside it becomes stack[0]
HTMLSuiteBegin ==
    /\ rootSuite = "running"
    /\ Len(openSuites) < MaxDepth
    /\ Len(dom) < MaxNodes
    /\ dom' = Append(dom, [kind |-> "suite", id |-> Len(dom) + 1,
                           parent |-> Head(containers), within |-> Innermost])
    /\ containers' = <<Len(dom) + 1>> \o containers
    /\ openSuites' = Append(openSuites, Len(dom) + 1)
    /\ UNCHANGED <<rootSuite, besidesHTML>>

\* html.js lines 147-157: EVENT_SUITE_END for a suite below the root
HTMLSuiteEnd ==
    /\ rootSuite = "running"
    /\ openSuites # <<>>
    /\ containers' = ContainersAfterSuiteEnd(FALSE)
    /\ openSuites' = SubSeq(openSuites, 1, Len(openSuites) - 1)
    /\ UNCHANGED <<rootSuite, dom, besidesHTML>>

\* html.js lines 147-155: EVENT_SUITE_END for the root suite
HTMLRootEnd ==
    /\ rootSuite = "running"
    /\ openSuites = <<>>
    /\ rootSuite' = "done"
    /\ containers' = ContainersAfterSuiteEnd(TRUE)
    /\ UNCHANGED <<openSuites, dom, besidesHTML>>

\* html.js lines 160-171
HTMLOnPass ==
    /\ rootSuite = "running"
    /\ Len(dom) < MaxNodes
    /\ dom' = appendToStack("pass")
    /\ UNCHANGED <<rootSuite, openSuites, containers, besidesHTML>>

\* html.js lines 173-228 (test.err is an Error, so its toString returns)
HTMLOnFail ==
    /\ rootSuite = "running"
    /\ Len(dom) < MaxNodes
    /\ dom' = appendToStack("fail")
    /\ UNCHANGED <<rootSuite, openSuites, containers, besidesHTML>>

\* html.js lines 230-237
HTMLOnPending ==
    /\ rootSuite = "running"
    /\ Len(dom) < MaxNodes
    /\ dom' = appendToStack("pending")
    /\ UNCHANGED <<rootSuite, openSuites, containers, besidesHTML>>

\* html.js lines 61-127: an HTML reporter was constructed in a document
\* that has a #mocha element
InitHTML ==
    /\ rootSuite = "idle"
    /\ openSuites = <<>>
    /\ containers = <<Report>>
    /\ dom = <<>>
    /\ IdleStack
    /\ IdleDiff
    /\ IdleRun
    /\ IdleEmit
    /\ IdleXFile
    /\ IdleJSON
    /\ IdleLand
    /\ IdleTerm

\* the runner's events are well nested: the root suite begins first and
\* ends last, a suite ends after the suites begun inside it
NextHTML ==
    \/ HTMLRootBegin
    \/ HTMLSuiteBegin
    \/ HTMLSuiteEnd
    \/ HTMLRootEnd
    \/ HTMLOnPass
    \/ HTMLOnFail
    \/ HTMLOnPending

SpecHTML == InitHTML /\ [][NextHTML]_vars


(***************************************************************************)
(* Properties of getFullErrorStack (checked under SpecStack)               *)
(***************************************************************************)

\* the errors of the chain the call was made on
ChainErrors == DOMAIN heap

\* the chain leads into a cycle (the last error's cause is an error of the chain)
ChainIsCyclic == heap[Len(heap)].cause # NoCause

\* the text of a returned value
ReturnedText(r) == r.msg \o r.stack

\* s with the first occurrence of sub taken out
WithoutFirst(s, sub) ==
    IF IndexOf(s, sub) = -1 THEN s
    ELSE SubSeq(s, 1, IndexOf(s, sub)) \o SliceFrom(s, IndexOf(s, sub) + Len(sub))

\* C3: getFullErrorStack terminates on every finite cause graph, cyclic ones
\* included, and makes at most (number of distinct errors + 1) recursive
\* calls (calls counts the outermost call too, hence calls - 1).
C3_TerminatesBounded ==
    /\ [](calls - 1 <= Cardinality(ChainErrors) + 1)
    /\ <>(pc = "done")

\* a mutually-referential chain was flattened to the end: every error was
\* entered once and the re-entry was cut by the visited set
C3_Witness ==
    /\ pc = "done"
    /\ Len(heap) >= 2
    /\ heap[Len(heap)].cause = 1
    /\ calls = Cardinality(ChainErrors) + 1

\* C4 (as claimed): for every self- or mutually-referential cause chain the
\* returned text holds exactly one "<circular>" marker.
C4_ExactlyOneCircular ==
    (pc = "done" /\ ChainIsCyclic) => Occurrences(ReturnedText(ret), Circular) = 1

\* C5 (as claimed): every call on an error whose cause is not yet visited
\* recurses into the cause, and the stack it returns ends with
\* "\n   Caused by: " + cause msg (+ "\n" + cause stack when non-empty),
\* whether or not the error's message is found in its stack.
C5_CauseAlwaysAppended ==
    lastCall.causeUnvisited =>
        /\ lastCall.recursed
        /\ EndsWith(lastCall.ret.stack,
                    CausedBy \o lastCall.causeRet.msg
                      \o (IF lastCall.causeRet.stack # <<>>
                          THEN NL \o lastCall.causeRet.stack ELSE <<>>))

\* the latest finished call was made on an error that has no cause
ReturnedWithoutCause ==
    /\ lastCall.err # 0
    /\ ~lastCall.circular
    /\ heap[lastCall.err].cause = NoCause

\* C6 (as claimed): for an error without a cause, msg = message and stack =
\* the raw stack with the leading occurrence of the message removed.
C6_MsgIsMessage ==
    ReturnedWithoutCause =>
        LET e == heap[lastCall.err]
        IN  /\ lastCall.ret.msg = MessageOf(e)
            /\ lastCall.ret.stack = WithoutFirst(RawStack(e), MessageOf(e))

\* C6 (amended): for an error without a cause whose non-empty message occurs
\* in the raw stack, msg is the raw stack up to and including the first
\* occurrence of the message, and stack is what follows that occurrence
\* less one more character (the separator); otherwise msg = message and
\* stack = the whole raw stack.
C6_SplitAtMessage ==
    ReturnedWithoutCause =>
        LET e   == heap[lastCall.err]
            m   == MessageOf(e)
            raw == RawStack(e)
            r   == lastCall.ret
        IN  /\ r.message = m
            /\ IF m # <<>> /\ IndexOf(raw, m) # -1
               THEN /\ EndsWith(r.msg, m)
                    /\ IndexOf(r.msg, m) = Len(r.msg) - Len(m)
                    /\ SubSeq(raw, 1, Len(r.msg)) = r.msg
                    /\ r.stack = SubSeq(raw, Len(r.msg) + 2, Len(raw))
               ELSE r.msg = m /\ r.stack = raw

\* an error without a cause whose message occurs after a prefix of the stack
\* was flattened: msg is longer than the message
C6_Witness ==
    /\ ReturnedWithoutCause
    /\ MessageIndex(heap[lastCall.err]) > 0
    /\ lastCall.ret.msg # MessageOf(heap[lastCall.err])
    /\ lastCall.ret.stack # <<>>

(***************************************************************************)
(* Properties of generateDiff (checked under SpecDiff)                     *)
(***************************************************************************)

\* the latest call was made on two strings
CalledOnStrings ==
    /\ dcall.called
    /\ dcall.actual.type = "string"
    /\ dcall.expected.type = "string"

IsPrefix(p, s) == Len(p) <= Len(s) /\ SubSeq(s, 1, Len(p)) = p

\* C7: on strings, the truncation notice (naming N) is appended iff
\* maxDiffSize = N > 0 and actual or expected is longer than N; with N > 0
\* each side handed to the diff routine is the first N characters at most;
\* with maxDiffSize = 0 both sides are diffed in full and there is no notice.
C7_TruncationNotice ==
    CalledOnStrings =>
        LET N == dcall.maxDiffSize
            a == dcall.actual.s
            e == dcall.expected.s
        IN  /\ dres.kind = "diff"
            /\ dres.notice <=> (N > 0 /\ (Len(a) > N \/ Len(e) > N))
            /\ dres.notice => dres.noticeSize = N
            /\ N > 0 => /\ Len(dres.actual) <= N /\ IsPrefix(dres.actual, a)
                        /\ Len(dres.expected) <= N /\ IsPrefix(dres.expected, e)
                        /\ Len(a) <= N => dres.actual = a
                        /\ Len(e) <= N => dres.expected = e
            /\ N = 0 => dres.actual = a /\ dres.expected = e /\ ~dres.notice

\* only one side was longer than a positive maxDiffSize, and the notice is there
C7_Witness ==
    /\ CalledOnStrings
    /\ dcall.maxDiffSize > 0
    /\ Len(dcall.actual.s) > dcall.maxDiffSize
    /\ Len(dcall.expected.s) < dcall.maxDiffSize
    /\ dres.notice
    /\ Len(dres.actual) = dcall.maxDiffSize

\* C8: generateDiff always returns a string, never an exception, and when
\* the truncation or the diff computation failed what it returns is the
\* "failed to generate Mocha diff" notice.
C8_NeverThrows ==
    dcall.called =>
        /\ dres.kind \in {"diff", "fallback"}
        /\ dcall.failed <=> dres.kind = "fallback"

\* a call whose truncation failed (a value with no length) returned the notice
C8_Witness ==
    /\ dcall.called
    /\ dcall.failed
    /\ dcall.maxDiffSize > 0
    /\ dcall.actual.type = "undefined"
    /\ dres = Fallback

(***************************************************************************)
(* Properties of the lifecycle handlers and the run-end rendering          *)
(* (checked under Spec)                                                    *)
(***************************************************************************)

\* the errors of the test-fail events delivered for test t, in arrival order
RaisedFor(t) ==
    LET mine == SelectSeq(failLog, LAMBDA ev : ev.test = t)
    IN  [i \in 1..Len(mine) |-> mine[i].err]

\* the latest step was a test-fail event, and what it carried
FailDelivered == Len(failLog') = Len(failLog) + 1
FailedTest    == failLog'[Len(failLog')].test
FailedWith    == failLog'[Len(failLog')].err

\* C1, its first sentence: on a test-fail event, a genuine Error reported for
\* a test that holds an err is appended to test.err.multiple (test.err and
\* the earlier entries stay); otherwise test.err becomes the reported value.
C1_EachFailEvent ==
    FailDelivered =>
        IF testErr[FailedTest] # 0 /\ ErrObjects[FailedWith].isError
        THEN /\ testErr'[FailedTest] = testErr[FailedTest]
             /\ errs'[testErr[FailedTest]].multiple =
                    Append(errs[testErr[FailedTest]].multiple, FailedWith)
        ELSE testErr'[FailedTest] = FailedWith

\* C1, its conclusion: after n fail events for one test that all carry Error
\* objects, test.err is the first error and test.err.multiple the other n-1
\* in raise order.
C1_AllRaisedInOrder ==
    \A t \in TestIds :
        (RaisedFor(t) # <<>> /\ \A i \in DOMAIN RaisedFor(t) : ErrObjects[RaisedFor(t)[i]].isError)
            => /\ testErr[t] = Head(RaisedFor(t))
               /\ errs[testErr[t]].multiple = Tail(RaisedFor(t))

\* C1 (as claimed): every fail event chains or replaces as described, and so
\* a test's Error-only fail events leave test.err = the first error and
\* test.err.multiple = the others in raise order.
C1_FailChainsErrors == [][C1_EachFailEvent]_vars /\ []C1_AllRaisedInOrder

\* C2: the failures list is exactly the tests of the test-fail events, in
\* arrival order; pass, pending and run-end (the rendering) leave it alone.
C2_FailuresInArrivalOrder ==
    failures = [i \in 1..Len(failLog) |-> failLog[i].test]

\* the second test failed before the first, a test passed, and the epilogue
\* was rendered: failures holds the two in arrival order
C2_Witness ==
    /\ ended
    /\ out.by = "epilogue"
    /\ stats.passes = 1
    /\ failures = <<2, 1>>

\* the three conditions of a diff, on an error object as it is now
DiffConditions(e) ==
    /\ e # 0
    /\ ErrObjects[e].showDiff # "false"
    /\ errs[e].actual.type = errs[e].expected.type
    /\ errs[e].expected.type # "undefined"

\* C9: generateDiff is called for a failure, in the epilogue's list and in
\* XUnit's failure element, only when err.showDiff is not false, actual and
\* expected have the same type and expected is not undefined.
C9_DiffOnlyWhenShown ==
    /\ \A i \in DOMAIN out.blocks : out.blocks[i].diff => DiffConditions(out.blocks[i].err)
    /\ \A i \in DOMAIN out.xml :
          out.xml[i].diff => (out.xml[i].child = "failure" /\ DiffConditions(out.xml[i].err))

\* the list showed one failure with a diff and one, of mismatched types,
\* without
C9_Witness ==
    /\ out.by = "epilogue"
    /\ \E i \in DOMAIN out.blocks : out.blocks[i].diff /\ ErrObjects[out.blocks[i].err].actual.type = "number"
    /\ \E i \in DOMAIN out.blocks :
          /\ ~out.blocks[i].diff
          /\ errs[out.blocks[i].err].actual.type # errs[out.blocks[i].err].expected.type

\* C10: a pass event sets the test's speed from its duration d and its slow
\* threshold T with strict comparisons: d > T slow, else d > T/2 medium,
\* else fast; d = T is medium, d = T/2 is fast; with T = 75: 100 is slow,
\* 40 medium, 10 fast.
C10_SpeedClassification ==
    \A t \in TestIds :
        /\ testState[t] = "passed" => speed[t] # "unset"
        /\ speed[t] # "unset" =>
             LET d == duration[t]
                 T == Slow[t]
             IN  /\ d > T => speed[t] = "slow"
                 /\ (d <= T /\ 2 * d > T) => speed[t] = "medium"
                 /\ 2 * d <= T => speed[t] = "fast"
                 /\ d = T => speed[t] = "medium"
                 /\ 2 * d = T => speed[t] = "fast"
                 /\ (T = 75 /\ d = 100) => speed[t] = "slow"
                 /\ (T = 75 /\ d = 40) => speed[t] = "medium"
                 /\ (T = 75 /\ d = 10) => speed[t] = "fast"

\* one test passed in exactly its threshold, the other in exactly half of it
C10_Witness ==
    /\ duration[1] = Slow[1] /\ speed[1] = "medium"
    /\ 2 * duration[2] = Slow[2] /\ speed[2] = "fast"

(***************************************************************************)
(* Properties of the dispatch of EVENT_TEST_PASS (checked under SpecEmit)  *)
(***************************************************************************)

\* C11: on each test-pass event Base's handler, which assigns test.speed,
\* runs before the reporter's own pass handler, and speed is written exactly
\* once per pass event; no reporter output or summary (Dot, List, HTML, JSON)
\* reads an unassigned speed for a passing test, and what it reads is the
\* speed of the duration the event carried.
C11_SpeedAssignedBeforeRead ==
    /\ writes <= 1
    /\ (cur # 0 /\ emitting # <<>> /\ Head(emitting) # "base") => writes = 1
    /\ (cur # 0 /\ emitting = <<>>) => writes = 1
    /\ \A i \in DOMAIN reads :
          /\ reads[i].state = "passed" => reads[i].speed # "unset"
          /\ reads[i].speed = SpeedOf(reads[i].duration, Slow[reads[i].test])
          /\ reads[i].by # "json" => reads[i].writes = 1

\* List printed a medium test during its pass event, after Base's one write
C11_Witness ==
    /\ reporter = "list"
    /\ cur # 0
    /\ emitting = <<>>
    /\ reads # <<>>
    /\ reads[Len(reads)].test = cur
    /\ reads[Len(reads)].speed = "medium"
    /\ reads[Len(reads)].writes = 1

(***************************************************************************)
(* Properties of the run-end rendering (checked under Spec)                *)
(***************************************************************************)

\* where a kind of line stands in the epilogue
Rank(kind) ==
    CASE kind = "passing" -> 1
      [] kind = "pending" -> 2
      [] kind = "failing" -> 3
      [] OTHER -> 4

\* C12: epilogue emits the passing-count line first, always; the pending-count
\* line iff stats.pending > 0; the failing-count line followed by the failure
\* list iff stats.failures > 0, after the pending line when both are there.
C12_EpilogueOrder ==
    out.by = "epilogue" =>
        LET L == out.lines
            Has(k) == \E i \in DOMAIN L : L[i].kind = k
        IN  /\ L # <<>>
            /\ L[1] = Line("passing", stats.passes)
            /\ Has("pending") <=> stats.pending > 0
            /\ Has("failing") <=> stats.failures > 0
            /\ Has("block") => Has("failing")
            /\ \A i \in DOMAIN L :
                  /\ L[i].kind = "pending" => L[i].n = stats.pending
                  /\ L[i].kind = "failing" => L[i].n = stats.failures
            /\ \A i, j \in DOMAIN L :
                  i < j => \/ Rank(L[i].kind) < Rank(L[j].kind)
                           \/ (L[i].kind = "block" /\ L[j].kind = "block")

\* a run with a passed, a pending and a failed test was summed up
C12_Witness ==
    /\ out.by = "epilogue"
    /\ stats.passes = 1
    /\ [i \in DOMAIN out.lines |-> out.lines[i].kind]
          = <<"passing", "pending", "failing", "block">>

\* C13 (as claimed): when failures > 0 the failure list holds one numbered
\* block per entry of the failures list (a test that raised several errors
\* has several entries), numbered 1, 2, ..., n without gaps or repeats.
C13_OneBlockPerFailure ==
    (out.by = "epilogue" /\ stats.failures > 0) =>
        /\ Len(out.blocks) = Len(failures)
        /\ \A i \in DOMAIN out.blocks : out.blocks[i].index = i

\* C14: rendering the epilogue a second time over the same stats and
\* failures gives the same output as the first time (the same lines, the
\* same blocks, each showing the same error with the same diff on the same
\* two strings).
C14_EpilogueIdempotent ==
    prevOut # NoOut => out = prevOut

\* the epilogue was rendered twice on two failures, one of them with a diff
\* of two numbers, which stringifyDiffObjs had turned into strings
C14_Witness ==
    /\ prevOut # NoOut
    /\ Len(out.blocks) = 2
    /\ \E i \in DOMAIN out.blocks :
          /\ out.blocks[i].diff
          /\ ErrObjects[out.blocks[i].err].actual.type = "number"
          /\ out.blocks[i].actual = ErrObjects[out.blocks[i].err].actual.text

\* the first position at which test t was collected
FirstArrival(t) == CHOOSE i \in DOMAIN xtests : xtests[i] = t /\ \A j \in 1..(i - 1) : xtests[j] # t

\* C20 (as claimed): at run-end XUnit writes the opening testsuite tag first,
\* then exactly one testcase element per test of the run, in arrival order,
\* then the closing tag last, also when a test had more than one fail event.
C20_OneTestcasePerTest ==
    out.by = "xunit" =>
        LET X     == out.xml
            cases == SubSeq(X, 2, Len(X) - 1)
        IN  /\ Len(X) >= 2
            /\ X[1].kind = "testsuite"
            /\ X[Len(X)].kind = "/testsuite"
            /\ \A i \in DOMAIN cases : cases[i].kind = "testcase"
            /\ \A t \in TestIds :
                  testState[t] # "none" =>
                      Cardinality({ i \in DOMAIN cases : cases[i].test = t }) = 1
            /\ \A i, j \in DOMAIN cases :
                  i < j => FirstArrival(cases[i].test) < FirstArrival(cases[j].test)

(***************************************************************************)
(* Properties of XUnit's output (checked under SpecXFile)                  *)
(***************************************************************************)

\* what holds of done's fn in every state
FnAfterStreamEnd ==
    /\ Len(fnCalls) <= 1
    /\ fileStream \in {"open", "ending"} => fnCalls = <<>>
    /\ (doneWith # -1 /\ fileStream = "none") => Len(fnCalls) = 1
    /\ \A i \in DOMAIN fnCalls :
          /\ fnCalls[i].failures = doneWith
          /\ fileStream = "none" => fnCalls[i].from = "done"
          /\ fileStream # "none" =>
                /\ fnCalls[i].from = "end"
                /\ fnCalls[i].stream \in {"finished", "errored"}
          /\ fnCalls[i].stream = "finished" => sinks.buffered = <<>>

\* C15: done(failures, fn) invokes fn exactly once, with failures: with a
\* file stream open only from the stream's end callback, never before the
\* stream has ended (and then everything written is in the file); with no
\* file stream, at once.
C15_DoneAfterFlush ==
    /\ []FnAfterStreamEnd
    /\ (doneWith # -1) ~> (Len(fnCalls) = 1)

\* a report of four lines went to the file, the stream finished, and only
\* then fn was called with the failures count
C15_Witness ==
    /\ fileStream = "finished"
    /\ sinks.inFile = <<1, 2, 3, 4>>
    /\ doneWith = 1
    /\ fnCalls = <<[failures |-> 1, from |-> "end", stream |-> "finished"]>>

\* C17 (as claimed): with an output file configured, a failure to create the
\* destination or to write to it is caught (it does not propagate out of the
\* reporter, and no 'error' goes unhandled) and no report line is lost: the
\* lines are in the file or on the console.
C17_FallbackToConsole ==
    /\ xunit # "threw"
    /\ ~uncaught
    /\ sinks.lost = <<>>

(***************************************************************************)
(* Properties of the JSON reporter (checked under SpecJSON)                *)
(***************************************************************************)

\* the position of a call among the calls the handler made (0 when absent)
CallAt(name) ==
    IF \E i \in DOMAIN report.calls : report.calls[i] = name
    THEN CHOOSE i \in DOMAIN report.calls : report.calls[i] = name
    ELSE 0

\* what C16 says of a handler that has run
DeliveredToOne ==
    /\ (report.file = "json") # (report.stdout = "json")
    /\ ~output => (report.stdout = "json" /\ CallAt("mkdirSync") = 0)
    /\ output => CallAt("mkdirSync") = 1
    /\ CallAt("writeFileSync") # 0 => CallAt("mkdirSync") < CallAt("writeFileSync")
    /\ (output /\ report.file # "json") =>
          /\ CallAt("console.error") # 0
          /\ CallAt("console.error") < CallAt("stdout.write")
          /\ report.stdout = "json"

\* C16 (as claimed): at run-end with an output file the directory is created
\* before the write; a failure of either is caught, logged, and the JSON text
\* goes to stdout; in every outcome the report is delivered to exactly one
\* destination and the handler does not throw.
C16_DeliveredOnce ==
    (report.ran /\ output) => (~report.threw /\ DeliveredToOne)

\* the objects an object refers to
Refs(o) == {objs[o].f, objs[o].g} \ {0}

RECURSIVE ReachableIn(_, _)
ReachableIn(S, k) ==
    IF k = 0 THEN S ELSE ReachableIn(S \cup UNION { Refs(o) : o \in S }, k - 1)

\* the objects reachable from those of S
ReachableFrom(S) == ReachableIn(S, Len(objs))

\* the err holds an object that refers to itself, directly or through others
HasCycle == \E o \in ReachableFrom({1}) : o \in ReachableFrom(Refs(o))

\* the result holds a marker wherever a field of a kept object refers to the
\* object itself or to one it is nested in
CycleFieldsMarked(nodes) ==
    \A nd \in nodes :
        nd.kind = "object" =>
            LET around == { a.obj : a \in { x \in nodes : x.kind = "object" /\ IsPrefix(x.path, nd.path) } }
            IN  /\ objs[nd.obj].f \in around => Node(Append(nd.path, "f"), "marker", 0) \in nodes
                /\ objs[nd.obj].g \in around => Node(Append(nd.path, "g"), "marker", 0) \in nodes

\* C19 (as claimed): for any object that contains a self-reference, directly
\* or through a longer cycle, cleanCycles returns without throwing, its
\* result is a finite tree, and each field that closed a cycle holds a
\* string marker.
C19_CyclesBecomeMarkers ==
    (report.ran /\ jsonFailures # <<>> /\ HasCycle) =>
        /\ ~report.threw
        /\ \A nd \in report.errs[1].nodes : Len(nd.path) <= Len(objs)
        /\ CycleFieldsMarked(report.errs[1].nodes)

(***************************************************************************)
(* Properties of the Landing reporter (checked under SpecLanding)          *)
(***************************************************************************)

\* the latest cursor call logged before position i is cursor.show
ShownBefore(i) ==
    \E j \in 1..(i - 1) :
        /\ termLog[j] = "show"
        /\ \A k \in (j + 1)..(i - 1) : termLog[k] # "hide"

\* C18: a cursor hidden at run-begin is visible again before the process may
\* end: run-end calls cursor.show before the epilogue, a SIGINT calls
\* cursor.show before the signal is raised again, and the process never ends
\* after run-begin with the cursor hidden.
C18_CursorRestored ==
    /\ (proc # "running" /\ phase # "constructed") => ~cursorHidden
    /\ \A i \in DOMAIN termLog :
          termLog[i] \in {"epilogue", "kill", "exit"} => ShownBefore(i)

\* on a terminal, the run was interrupted after run-begin had hidden the
\* cursor: the process was killed with the cursor visible
C18_Witness ==
    /\ tty.isatty
    /\ termLog = <<"hide", "show", "kill">>
    /\ proc = "killed"
    /\ strip.events > 0
    /\ ~cursorHidden

(***************************************************************************)
(* Properties of events delivered after run-end (checked under SpecLate)   *)
(***************************************************************************)

\* C21: once run-end was delivered, a test-pass, test-fail or test-pending
\* event changes neither the failures list, nor test.err and err.multiple,
\* nor test.speed, nor a reporter's collected tests.
C21_NoOutcomeAfterEnd ==
    [][ended => /\ failures' = failures
                /\ testErr' = testErr
                /\ \A e \in ErrIds : errs'[e].multiple = errs[e].multiple
                /\ speed' = speed
                /\ xtests' = xtests]_vars

(***************************************************************************)
(* What the fail handler computes, and what is left to list (under Spec)   *)
(***************************************************************************)

\* the entries of failures for which list has rendered a block: its
\* flattened message and stack and, where shown, its diff
Rendered == { out.blocks[k].index : k \in DOMAIN out.blocks }

\* C22, as stated: every entry of failures has had its diff and its
\* flattened message and stack computed.
C22_ComputedBeforeAppend ==
    \A i \in DOMAIN failures : i \in Rendered

\* C22, amended: what is done before a failure's test is appended is
\* stringifyDiffObjs (when showDiff(err) holds): the operands of the diff
\* of every appended failure are strings.  The diff text and the flattened
\* message and stack are computed by list, not before run-end.
C22_OperandsStringifiedBeforeAppend ==
    /\ Len(failures) = Len(failLog)
    /\ \A i \in DOMAIN failLog :
          showDiff(failLog[i].err, errs)
            => /\ errs[failLog[i].err].actual.type = "string"
               /\ errs[failLog[i].err].expected.type = "string"
    /\ ~ended => Rendered = {}

\* a failure comparing two numbers was appended, its operands are strings
\* by now, and nothing was rendered yet
C22_Witness ==
    /\ ~ended
    /\ \E i \in DOMAIN failLog :
          /\ ErrObjects[failLog[i].err].actual.type = "number"
          /\ errs[failLog[i].err].actual = Str(<<"1">>)
          /\ errs[failLog[i].err].expected = Str(<<"2">>)
    /\ Rendered = {}

(***************************************************************************)
(* Properties of color and of the layout width (checked under SpecTerm)    *)
(***************************************************************************)

\* both stdio streams are terminals
BothTerminals == env.stdoutTTY /\ env.stderrTTY

\* colors were enabled by the environment
ColorsEnabled == env.supportsColor \/ env.mochaColors

\* C23, as stated: color returns str unchanged whenever the process is not
\* interactive or colors were not enabled.
C23_IdentityUnlessInteractive ==
    (colorCall.called /\ (~BothTerminals \/ ~ColorsEnabled))
        => colorCall.result = colorCall.str

\* C23, amended: color returns str unchanged exactly when useColors is
\* false, that is in the browser or when neither supportsColor.stdout nor
\* MOCHA_COLORS is set; otherwise it wraps str in the escape of the type and
\* the reset escape, whether or not the streams are terminals.
C23_IdentityUnlessUseColors ==
    colorCall.called =>
        IF env.isBrowser \/ ~ColorsEnabled
        THEN colorCall.result = colorCall.str
        ELSE colorCall.result =
               <<"ESC[", colors[colorCall.type], "m">> \o colorCall.str
                  \o <<"ESC[", "0", "m">>

\* MOCHA_COLORS is set and stdout is no terminal: the text was colored
C23_Witness ==
    /\ colorCall.called
    /\ ~env.isBrowser /\ ~env.stdoutTTY /\ env.mochaColors /\ ~env.supportsColor
    /\ colorCall.str = <<"x", "y">>
    /\ colorCall.result = <<"ESC[", "31", "m", "x", "y", "ESC[", "0", "m">>

\* C24, as stated: the width laid out against is floor(0.75 * columns) on
\* terminals and the fallback 75, unscaled, otherwise.
C24_FallbackUnscaled ==
    layout.by # "none" =>
        layout.width = IF BothTerminals THEN (3 * env.columns) \div 4
                       ELSE DefaultWindowWidth

\* C24, amended: Dot and Landing lay out against floor(0.75 * window.width),
\* where window.width is the detected column count when both streams are
\* terminals, the browser's innerWidth (480 in a worker) in the browser, and
\* 75 otherwise: the fallback is scaled as well, to 56.
C24_ScaledWindowWidth ==
    layout.by # "none" =>
        layout.width =
            IF env.isBrowser
            THEN (IF env.hasInner THEN (3 * env.columns) \div 4 ELSE 360)
            ELSE IF BothTerminals THEN (3 * env.columns) \div 4
            ELSE 56

\* a Dot reporter constructed where stdout is no terminal lays out against 56
C24_Witness ==
    /\ layout = [by |-> "dot", width |-> 56]
    /\ ~env.isBrowser /\ ~env.stdoutTTY /\ env.stderrTTY

(***************************************************************************)
(* Properties of Dot's output (checked under SpecDot)                      *)
(***************************************************************************)

\* the positions of the symbols in what Dot wrote, in order
SymbolAt == { i \in DOMAIN dot.written : dot.written[i] # Break }

\* the number (from 0) of the symbol written at position i
NumberOf(i) == Cardinality({ j \in SymbolAt : j < i })

\* the symbols numbered 0, width, 2 * width, ...
RowStarts == { k * dot.width : k \in 0..MaxSymbols }

\* the symbols of the row that the symbol at position i is in
RowOf(i) ==
    { j \in SymbolAt : \A k \in (Min(i, j) + 1)..(Max(i, j) - 1) : dot.written[k] # Break }

\* C30: one symbol per event; a break is written exactly before the symbols
\* numbered 0, width, 2 * width, ...; no row holds more than width symbols.
C30_RowsOfWidth ==
    /\ Cardinality(SymbolAt) = dot.n + 1
    /\ \A i \in SymbolAt :
          /\ (i > 1 /\ dot.written[i - 1] = Break) <=> (NumberOf(i) \in RowStarts)
          /\ Cardinality(RowOf(i)) <= dot.width
    /\ \A i \in DOMAIN dot.written :
          dot.written[i] = Break => (i + 1) \in SymbolAt

(***************************************************************************)
(* The maxDiffSize option (checked under SpecDiff)                         *)
(***************************************************************************)

\* C25: whatever reporterOption.maxDiffSize the reporters were constructed
\* with, the module's maxDiffSize is never negative.
C25_MaxDiffSizeNonNegative == maxDiffSize >= 0

(***************************************************************************)
(* Tests with several errors (checked under SpecFails and Spec)            *)
(***************************************************************************)

\* how many of the first i entries of failures are the test of entry i
EntryOfTest(i) == Cardinality({ k \in 1..i : failures[k] = failures[i] })

\* C26: in list(failures) the j-th entry of a test renders the j-th error
\* raised for it, for every arrival order of the fail events.
C26_EntriesRenderErrorsInOrder ==
    (out.by = "epilogue" /\ stats.failures > 0) =>
        \A i \in DOMAIN failures :
            /\ i \in DOMAIN out.blocks
            /\ out.blocks[i].err = RaisedFor(failures[i])[EntryOfTest(i)]

\* the errors a test holds: test.err, then test.err.multiple
Recorded(t) ==
    IF testErr[t] = 0 THEN <<>> ELSE <<testErr[t]>> \o errs[testErr[t]].multiple

\* C27: every genuine Error reported for a test is test.err or an element of
\* test.err.multiple, and the test holds as many errors as it has entries in
\* failures.
C27_NoErrorLost ==
    \A t \in TestIds :
        /\ \A i \in DOMAIN RaisedFor(t) :
              ErrObjects[RaisedFor(t)[i]].isError
                => \E j \in DOMAIN Recorded(t) : Recorded(t)[j] = RaisedFor(t)[i]
        /\ Len(Recorded(t)) = Len(RaisedFor(t))

(***************************************************************************)
(* Properties of the HTML reporter's containers (checked under SpecHTML)   *)
(***************************************************************************)

\* the open suites' containers, innermost first, then the report
ExpectedContainers ==
    [i \in 1..Len(openSuites) |-> openSuites[Len(openSuites) + 1 - i]] \o <<Report>>

\* C28: the stack holds the report root and one container per open suite
\* below the root, the root suite neither pushes nor pops, every element is
\* appended to the container of the innermost open suite, and once every
\* suite has ended the stack is the report root alone.
C28_ContainersFollowSuites ==
    /\ containers = ExpectedContainers
    /\ Len(containers) = 1 + Len(openSuites)
    /\ \A i \in DOMAIN dom : dom[i].parent = dom[i].within
    /\ rootSuite = "done" => containers = <<Report>>

\* a suite in a suite, a failed test in the inner one, a passed test in the
\* outer one after the inner ended, and every suite ended
C28_Witness ==
    /\ rootSuite = "done"
    /\ Len(dom) = 4
    /\ dom[1].kind = "suite" /\ dom[1].parent = Report
    /\ dom[2].kind = "suite" /\ dom[2].parent = 1
    /\ dom[3].kind = "fail" /\ dom[3].parent = 2
    /\ dom[4].kind = "pass" /\ dom[4].parent = 1
    /\ containers = <<Report>>

(***************************************************************************)
(* cleanCycles on inputs without a cycle (checked under SpecJSON)          *)
(***************************************************************************)

\* JSON.parse(JSON.stringify(v)) for the value v found at path, in an
\* object graph without a cycle
RECURSIVE RoundTrip(_, _)
RoundTrip(v, path) ==
    IF v = 0 THEN {Node(path, "number", 0)}
    ELSE {Node(path, "object", v)}
           \cup RoundTrip(objs[v].f, Append(path, "f"))
           \cup RoundTrip(objs[v].g, Append(path, "g"))

\* C29: on an input without a cycle, also one in which two fields refer to
\* the same object, cleanCycles gives what the plain JSON round trip gives:
\* no field is replaced by a marker.
C29_AcyclicUnchanged ==
    (report.ran /\ jsonFailures # <<>> /\ ~HasCycle) =>
        /\ ~report.threw
        /\ report.errs[1].nodes = RoundTrip(1, <<>>)

(***************************************************************************)
(* The plane's column in the Landing reporter (checked under SpecLanding)  *)
(***************************************************************************)

\* the latest step was a test-end event
TestEndDelivered == strip'.events = strip.events + 1

\* what one test-end event does to the column and the plane
ColumnStep ==
    TestEndDelivered =>
        /\ (strip.crashed = -1 /\ strip.events > 0) => strip'.col >= strip.col
        /\ strip.crashed # -1 =>
              /\ strip'.col = strip.crashed
              /\ strip'.crashed = strip.crashed
              /\ strip'.plane = "plane crash"
        /\ strip'.crashed # -1 =>
              /\ strip'.crashed = strip'.col
              /\ strip'.plane = "plane crash"

\* the column drawn is on the runway
ColumnOnRunway == strip.events > 0 => (0 <= strip.col /\ strip.col <= tty.width)

\* C31: at every test-end event 0 <= col <= width; the column does not
\* decrease while no test has failed; from the first failed test on the
\* column stays at the crash column and the plane stays in the crash color.
C31_PlaneColumn == []ColumnOnRunway /\ [][ColumnStep]_vars

\* the second test failed and a third test ended after it: the plane is
\* still drawn crashed, at the column of the crash
C31_Witness ==
    /\ strip.events = 3
    /\ strip.n = 2
    /\ tty.width = 3
    /\ strip.crashed = 3
    /\ strip.col = 3
    /\ strip.plane = "plane crash"

====
